---- MODULE Spec2Model ----
(***************************************************************************)
(* A model of the proxy gateway's core engine:                             *)
(*   - ClaudeSseEmitter          (src/src/utils/logger.js, 933-1065)       *)
(*   - the Claude -> Gemini request translator (logger.js, 372-784)        *)
(*   - TokenManager               (src/src/auth/token_manager.js)          *)
(*   - ModelCooldownManager       (src/src/auth/model_cooldown_manager.js) *)
(* Every component has its own specification (SpecEmitter, SpecTranslate,  *)
(* SpecPool, SpecCooldown); the variables of the other components stay     *)
(* unchanged under it.                                                     *)
(***************************************************************************)
EXTENDS Integers, Sequences, FiniteSets, TLC

VARIABLES
  \* ---- ClaudeSseEmitter --------------------------------------------------
  nextIndex,          \* this.nextIndex
  textBlockIndex,     \* this.textBlockIndex (Null or an index)
  thinkingBlockIndex, \* this.thinkingBlockIndex (Null or an index)
  finished,           \* this.finished
  totalOutputTokens,  \* this.totalOutputTokens
  inputTokens,        \* this.inputTokens (constructor argument)
  events,             \* the events handed to writeSSE(this.res, ...), in order
  endCount,           \* number of this.res.end() calls
  calls,              \* history of the method calls made on the emitter
  \* ---- request translator ------------------------------------------------
  trMessages,         \* claudeRequest.messages
  trModel,            \* claudeRequest.model (a string as a sequence of characters)
  trParts,            \* per message: the parts convertClaudeContentToGeminiParts returned
  trOut,              \* what convertClaudeToGeminiRequest produced
  trDone,             \* the request has been translated
  \* ---- TokenManager, usage log, ModelCooldownManager ----------------------
  now,                \* Date.now()
  skipProjectIdFetch, \* config.skipProjectIdFetch
  accountsFile,       \* data/accounts.json: the array of token objects
  tokens,             \* this.tokens: references (refresh_token) to token objects
  tok,                \* the token objects, by refresh_token
  currentIndex,       \* this.currentIndex (0-based)
  quotaCache,         \* quotaMonitor.quotaCache: credential key -> entry
  ledger,             \* the usage log getUsageCountSince reads
  cooldownMap,        \* ModelCooldownManager.cooldownMap
  timerMap,           \* ModelCooldownManager.timerMap
  cooldownsFile,      \* data/model_cooldowns.json
  pendingCooldown,    \* setCooldown calls awaiting getModelsWithQuotas
  cooldownCalls,      \* number of setCooldown calls made
  req,                \* per caller: the call in flight and its local variables
  returned,           \* history of the results the calls returned
  \* ---- QuotaMonitor -------------------------------------------------------
  intervalId,         \* this.intervalId is set
  nextFire,           \* when the interval timer fires next
  startedAt,          \* when start() set the timer
  isChecking,         \* this.isChecking
  sweep,              \* per execution of checkAllQuotas: where it stands
  attempted,          \* per credential: when checkQuotaForAccount was last called
  checked             \* the last quota result checkQuotaForAccount processed

emVars == <<nextIndex, textBlockIndex, thinkingBlockIndex, finished,
            totalOutputTokens, inputTokens, events, endCount, calls>>

trVars == <<trMessages, trModel, trParts, trOut, trDone>>

poolVars == <<now, skipProjectIdFetch, accountsFile, tokens, tok, currentIndex,
              quotaCache, ledger, cooldownMap, timerMap, cooldownsFile,
              pendingCooldown, cooldownCalls, req, returned>>

\* cleanJsonSchema: the schema as it was given, the caller's object, the
\* result of cleaning it and the result of cleaning the result
VARIABLES input, given, cleaned, recleaned
quotaVars == <<intervalId, nextFire, startedAt, isChecking, sweep, attempted,
               checked>>

schemaVars == <<input, given, cleaned, recleaned>>
vars == <<emVars, trVars, poolVars, quotaVars, schemaVars>>

\* JavaScript's null / undefined for an index or a number.
Null == -1

(***************************************************************************)
(* Bounds of the emitter model.                                            *)
(***************************************************************************)
MaxCalls == 5

\* Text chunks handed to sendText and to sendThinking ("" is falsy in JS).
TextChunks     == {"", "b"}
ThinkingChunks == {"", "a"}

\* Tool calls in the OpenAI shape {id, function: {name, arguments}}.
\* name "" stands for a missing name.
ToolT1 == [id |-> "t1", name |-> "f", arguments |-> "{}"]
ToolT2 == [id |-> "t2", name |-> "",  arguments |-> "{\"x\":1}"]
\* a call whose arguments are the empty string
ToolT3 == [id |-> "t3", name |-> "g", arguments |-> ""]
ToolCallLists == {<< >>, <<ToolT1>>, <<ToolT1, ToolT2>>, <<ToolT3>>}

\* usage objects given to finish; Null marks an absent field, NoUsage is
\* finish() called without an argument.
NoUsage == [prompt_tokens |-> Null, completion_tokens |-> Null,
            input_tokens |-> Null, output_tokens |-> Null]
Usage10_3 == [prompt_tokens |-> Null, completion_tokens |-> Null,
              input_tokens |-> 10, output_tokens |-> 3]
Usages == {NoUsage, Usage10_3}

InputTokenChoices == {0, 10}

(***************************************************************************)
(* estimateTokensFromText: 0 for a falsy text, else max(1, ceil(len/4)).   *)
(***************************************************************************)
Max2(a, b) == IF a >= b THEN a ELSE b

estimateTokensFromText(text) ==
  IF text = "" THEN 0 ELSE Max2(1, (Len(text) + 3) \div 4)

\* a ?? b on numbers
Coalesce(a, b) == IF a # Null THEN a ELSE b

(***************************************************************************)
(* The events written by writeSSE, as uniform records.                     *)
(***************************************************************************)
Ev(type, index, kind, text, inTok, outTok) ==
  [type |-> type, index |-> index, kind |-> kind, text |-> text,
   input_tokens |-> inTok, output_tokens |-> outTok]

MessageStartEv(inTok)  == Ev("message_start", Null, "", "", inTok, 0)
BlockStartEv(i, kind)  == Ev("content_block_start", i, kind, "", Null, Null)
BlockDeltaEv(i, kind, text) == Ev("content_block_delta", i, kind, text, Null, Null)
BlockStopEv(i)         == Ev("content_block_stop", i, "", "", Null, Null)
MessageDeltaEv(inTok, outTok) == Ev("message_delta", Null, "end_turn", "", inTok, outTok)
MessageStopEv          == Ev("message_stop", Null, "", "", Null, Null)

(***************************************************************************)
(* The emitter's methods as state transformers on a record                 *)
(*   [nextIndex, text, thinking, finished, tokens, events, ends].          *)
(***************************************************************************)
EmState == [nextIndex |-> nextIndex, text |-> textBlockIndex,
            thinking |-> thinkingBlockIndex, finished |-> finished,
            tokens |-> totalOutputTokens, events |-> events, ends |-> endCount]

writeSSE(s, ev) == [s EXCEPT !.events = Append(@, ev)]

closeTextBlock(s) ==
  IF s.text = Null THEN s
  ELSE writeSSE([s EXCEPT !.text = Null], BlockStopEv(s.text))

closeThinkingBlock(s) ==
  IF s.thinking = Null THEN s
  ELSE writeSSE([s EXCEPT !.thinking = Null], BlockStopEv(s.thinking))

\* ensureTextBlock with this.nextIndex for this.nextIndex++
ensureTextBlockSameIndex(s) ==
  IF s.text # Null THEN s
  ELSE writeSSE([s EXCEPT !.text = s.nextIndex], BlockStartEv(s.nextIndex, "text"))

ensureTextBlock(s) ==
  IF s.text # Null THEN s
  ELSE writeSSE([s EXCEPT !.text = s.nextIndex, !.nextIndex = @ + 1],
                BlockStartEv(s.nextIndex, "text"))

ensureThinkingBlock(s) ==
  IF s.thinking # Null THEN s
  ELSE writeSSE([s EXCEPT !.thinking = s.nextIndex, !.nextIndex = @ + 1],
                BlockStartEv(s.nextIndex, "thinking"))

\* sendText that forgets to close the thinking block
sendTextKeepsThinking(s, text) ==
  IF text = "" THEN s
  ELSE LET s1 == ensureTextBlock(s)
           s2 == [s1 EXCEPT !.tokens = @ + estimateTokensFromText(text)]
       IN  writeSSE(s2, BlockDeltaEv(s2.text, "text_delta", text))

sendText(s, text) ==
  IF text = "" THEN s
  ELSE LET s1 == ensureTextBlock(closeThinkingBlock(s))
           s2 == [s1 EXCEPT !.tokens = @ + estimateTokensFromText(text)]
       IN  writeSSE(s2, BlockDeltaEv(s2.text, "text_delta", text))

sendThinking(s, thinking) ==
  IF thinking = "" THEN s
  ELSE LET s1 == ensureThinkingBlock(closeTextBlock(s))
           s2 == [s1 EXCEPT !.tokens = @ + estimateTokensFromText(thinking)]
       IN  writeSSE(s2, BlockDeltaEv(s2.thinking, "thinking_delta", thinking))

\* the body of toolCalls.forEach for one call
sendOneToolCall(s, call) ==
  LET index == s.nextIndex
      s1 == [s EXCEPT !.nextIndex = @ + 1,
                      !.tokens = @ + estimateTokensFromText(call.arguments)]
      s2 == writeSSE(s1, BlockStartEv(index, "tool_use"))
      s3 == writeSSE(s2, BlockDeltaEv(index, "input_json_delta", call.arguments))
  IN  writeSSE(s3, BlockStopEv(index))

RECURSIVE forEachToolCall(_, _)
forEachToolCall(s, toolCalls) ==
  IF toolCalls = << >> THEN s
  ELSE forEachToolCall(sendOneToolCall(s, Head(toolCalls)), Tail(toolCalls))

\* sendToolCalls that leaves the open blocks open
sendToolCallsNoClose(s, toolCalls) ==
  IF toolCalls = << >> THEN s ELSE forEachToolCall(s, toolCalls)

\* The two awaits of lines 998-999 wait for values that are no promises: the
\* method goes on in the next microtask, before any timer or I/O callback
\* runs, and the caller awaits it; no other call of the emitter comes in
\* between, so the method is one step.
sendToolCalls(s, toolCalls) ==
  IF toolCalls = << >> THEN s
  ELSE forEachToolCall(closeThinkingBlock(closeTextBlock(s)), toolCalls)

\* finish without the finished guard
finishUnguarded(s, usage) ==
  LET s1 == closeThinkingBlock(closeTextBlock([s EXCEPT !.finished = TRUE]))
      outputTokens == Coalesce(usage.completion_tokens,
                               Coalesce(usage.output_tokens, s1.tokens))
      inTokens == Coalesce(usage.prompt_tokens,
                           Coalesce(usage.input_tokens, inputTokens))
      s2 == writeSSE(s1, MessageDeltaEv(inTokens, outputTokens))
      s3 == writeSSE(s2, MessageStopEv)
  IN  [s3 EXCEPT !.ends = @ + 1]

finish(s, usage) ==
  IF s.finished THEN s
  ELSE LET s1 == closeThinkingBlock(closeTextBlock([s EXCEPT !.finished = TRUE]))
           outputTokens == Coalesce(usage.completion_tokens,
                                    Coalesce(usage.output_tokens, s1.tokens))
           inTokens == Coalesce(usage.prompt_tokens,
                                Coalesce(usage.input_tokens, inputTokens))
           s2 == writeSSE(s1, MessageDeltaEv(inTokens, outputTokens))
           s3 == writeSSE(s2, MessageStopEv)
       IN  [s3 EXCEPT !.ends = @ + 1]

start(s) == writeSSE(s, MessageStartEv(inputTokens))


(***************************************************************************)
(*                      Claude -> Gemini translation                       *)
(***************************************************************************)
\* Model names are sequences of characters, so that includes / startsWith /
\* endsWith are computed on the name itself.
Includes(str, sub) ==
  \E i \in 1..(Len(str) - Len(sub) + 1) : SubSeq(str, i, i + Len(sub) - 1) = sub
StartsWith(str, pre) ==
  Len(str) >= Len(pre) /\ SubSeq(str, 1, Len(pre)) = pre
EndsWith(str, suf) ==
  Len(str) >= Len(suf) /\ SubSeq(str, Len(str) - Len(suf) + 1, Len(str)) = suf

S_gemini_3        == <<"g","e","m","i","n","i","-","3">>
S_claude          == <<"c","l","a","u","d","e">>
S_thinking_suffix == <<"-","t","h","i","n","k","i","n","g">>
S_gemini_3_pro_   == <<"g","e","m","i","n","i","-","3","-","p","r","o","-">>
S_gemini_25_pro   == <<"g","e","m","i","n","i","-","2",".","5","-","p","r","o">>
S_rev19           == <<"r","e","v","1","9","-","u","i","c","3","-","1","p">>
S_gpt_oss         == <<"g","p","t","-","o","s","s","-","1","2","0","b","-","m","e","d","i","u","m">>

M_gemini_3_pro_high        == <<"g","e","m","i","n","i","-","3","-","p","r","o","-","h","i","g","h">>
M_gemini_25_pro            == S_gemini_25_pro
M_gemini_25_flash          == <<"g","e","m","i","n","i","-","2",".","5","-","f","l","a","s","h">>
M_claude_sonnet_45         == <<"c","l","a","u","d","e","-","s","o","n","n","e","t","-","4","-","5">>
M_claude_sonnet_thinking   == <<"c","l","a","u","d","e","-","s","o","n","n","e","t","-","4","-","5","-","t","h","i","n","k","i","n","g">>

ModelNames == {M_gemini_3_pro_high, M_gemini_25_pro, M_gemini_25_flash,
               M_claude_sonnet_45, M_claude_sonnet_thinking}

\* Total number of content blocks of a request.
MaxBlocks == 3

\* Claude content blocks {type, ...}; "" marks an absent or empty field.
Block(type, text, signature, id, name) ==
  [type |-> type, text |-> text, signature |-> signature, id |-> id, name |-> name]

TextBlock(t)        == Block("text", t, "", "", "")
ThinkingBlock(t, g) == Block("thinking", t, g, "", "")
ToolUseBlock(i, n)  == Block("tool_use", "", "", i, n)
ToolResultBlock(i, c) == Block("tool_result", c, "", i, "")

Blocks == { TextBlock("hi"),
            ThinkingBlock("t1", "S"), ThinkingBlock("t2", "S2"),
            ThinkingBlock("t1", ""),
            ToolUseBlock("c1", "f"), ToolResultBlock("c1", "ok") }

Roles == {"user", "assistant"}

\* Gemini parts: kind is the field the part carries (text, inlineData,
\* functionCall, functionResponse); thoughtSignature "" is an absent field.
Part(kind, text, thought, id, name, response) ==
  [kind |-> kind, text |-> text, thought |-> thought, thoughtSignature |-> "",
   id |-> id, name |-> name, response |-> response]

RedactedText == "[redacted]"

\* Lowest and highest element of a non-empty set of indices.
MinOf(S) == CHOOSE i \in S : \A j \in S : i <= j
MaxOf(S) == CHOOSE i \in S : \A j \in S : i >= j

SetSig(parts, i, signature) ==
  [parts EXCEPT ![i] = [@ EXCEPT !.thoughtSignature = signature]]

\* applySignatureToParts preferring the last text part to a functionCall
applySignatureTextFirst(parts, signature) ==
  LET calls_ == {i \in DOMAIN parts : parts[i].kind = "functionCall"}
      texts  == {i \in DOMAIN parts : parts[i].text # "" /\ ~parts[i].thought}
      thoughts == {i \in DOMAIN parts : parts[i].thought}
  IN  IF texts # {} THEN SetSig(parts, MaxOf(texts), signature)
      ELSE IF calls_ # {} THEN SetSig(parts, MinOf(calls_), signature)
      ELSE IF thoughts # {} THEN SetSig(parts, MaxOf(thoughts), signature)
      ELSE parts

applySignatureToParts(parts, signature) ==
  LET calls_ == {i \in DOMAIN parts : parts[i].kind = "functionCall"}
      texts  == {i \in DOMAIN parts : parts[i].text # "" /\ ~parts[i].thought}
      thoughts == {i \in DOMAIN parts : parts[i].thought}
  IN  IF calls_ # {} THEN SetSig(parts, MinOf(calls_), signature)
      ELSE IF texts # {} THEN SetSig(parts, MaxOf(texts), signature)
      ELSE IF thoughts # {} THEN SetSig(parts, MaxOf(thoughts), signature)
      ELSE parts

\* phase 1 of convertClaudeContentToGeminiParts for one block: the parts pushed
BlockParts(block) ==
  CASE block.type = "text" ->
         IF block.text # "" THEN <<Part("text", block.text, FALSE, "", "", "")>>
         ELSE << >>
    [] block.type = "thinking" ->
         IF block.text # "" THEN <<Part("text", block.text, TRUE, "", "", "")>>
         ELSE << >>
    [] block.type = "redacted_thinking" ->
         <<Part("text", RedactedText, TRUE, "", "", "")>>
    [] block.type = "tool_use" ->
         <<Part("functionCall", "", FALSE, block.id, block.name, "")>>
    [] block.type = "tool_result" ->
         <<Part("functionResponse", "", FALSE, block.id, "", block.text)>>
    [] OTHER -> << >>

RECURSIVE Phase1Parts(_)
Phase1Parts(content) ==
  IF content = << >> THEN << >>
  ELSE BlockParts(Head(content)) \o Phase1Parts(Tail(content))

\* phase 1: the first non-empty signature of the thinking blocks
RECURSIVE ThinkingSignature(_)
ThinkingSignature(content) ==
  IF content = << >> THEN ""
  ELSE IF Head(content).type = "thinking" /\ Head(content).signature # ""
       THEN Head(content).signature
       ELSE ThinkingSignature(Tail(content))

convertClaudeContentToGeminiParts(content) ==
  LET parts == Phase1Parts(content)
      thinkingSignature == ThinkingSignature(content)
  IN  IF thinkingSignature # "" THEN applySignatureToParts(parts, thinkingSignature)
      ELSE parts

\* lines 547-557: the name of the functionCall with this id, scanning the
\* contents built so far from the last entry to the first
RECURSIVE LookupCallName(_, _, _, _)
LookupCallName(contents, i, id, name) ==
  IF i = 0 THEN name
  ELSE IF contents[i].role = "model"
       THEN LET ps == contents[i].parts
                hits == {k \in DOMAIN ps : ps[k].kind = "functionCall" /\ ps[k].id = id}
                found == IF hits # {} THEN ps[MinOf(hits)].name ELSE name
            IN  IF found # "" THEN found ELSE LookupCallName(contents, i - 1, id, found)
       ELSE LookupCallName(contents, i - 1, id, name)

\* the lookup that scans the contents from the first entry to the last
ResolveNamesOldestFirst(contents, parts) ==
  [k \in DOMAIN parts |->
     IF parts[k].kind = "functionResponse" /\ parts[k].name = ""
     THEN LET named == {i \in DOMAIN contents :
                          /\ contents[i].role = "model"
                          /\ \E j \in DOMAIN contents[i].parts :
                               /\ contents[i].parts[j].kind = "functionCall"
                               /\ contents[i].parts[j].id = parts[k].id
                               /\ contents[i].parts[j].name # ""}
          IN  IF named = {} THEN parts[k]
              ELSE [parts[k] EXCEPT !.name =
                      LookupCallName(contents, MinOf(named), parts[k].id, "")]
     ELSE parts[k]]

ResolveNames(contents, parts) ==
  [k \in DOMAIN parts |->
     IF parts[k].kind = "functionResponse" /\ parts[k].name = ""
     THEN [parts[k] EXCEPT !.name = LookupCallName(contents, Len(contents), parts[k].id, "")]
     ELSE parts[k]]

\* one iteration of the loop of convertClaudeMessagesToGeminiContents
MergeMessage(contents, message) ==
  LET role == IF message.role = "assistant" THEN "model" ELSE "user"
      parts0 == convertClaudeContentToGeminiParts(message.content)
      parts == IF role = "user" THEN ResolveNames(contents, parts0) ELSE parts0
      n == Len(contents)
  IN  IF n > 0 /\ contents[n].role = role
      THEN [contents EXCEPT ![n].parts = @ \o parts]
      ELSE Append(contents, [role |-> role, parts |-> parts])

RECURSIVE BuildContents(_, _)
BuildContents(contents, messages) ==
  IF messages = << >> THEN contents
  ELSE BuildContents(MergeMessage(contents, Head(messages)), Tail(messages))

\* lines 573-578
EnableThinkingForMessages(modelName) ==
  \/ EndsWith(modelName, S_thinking_suffix)
  \/ modelName = S_gemini_25_pro
  \/ StartsWith(modelName, S_gemini_3_pro_)
  \/ modelName = S_rev19
  \/ modelName = S_gpt_oss
  \/ Includes(modelName, S_claude)

\* lines 583-594: an assistant thinking block without a signature
HasUnsignedThinking(messages) ==
  \E i \in DOMAIN messages :
    /\ messages[i].role = "assistant"
    /\ \E k \in DOMAIN messages[i].content :
         /\ messages[i].content[k].type = "thinking"
         /\ messages[i].content[k].signature = ""

SelectParts(parts, keep(_)) ==
  LET F[i \in 0..Len(parts)] ==
        IF i = 0 THEN << >>
        ELSE IF keep(parts[i]) THEN Append(F[i-1], parts[i]) ELSE F[i-1]
  IN  F[Len(parts)]

IsThought(p) == p.thought
IsNotThought(p) == ~p.thought

\* lines 596-618: the last model entry decides; thoughts are moved in front
LastModelIndex(contents) ==
  LET S == {i \in DOMAIN contents : contents[i].role = "model"}
  IN  IF S = {} THEN 0 ELSE MaxOf(S)

\* lines 580-619 on the contents built by the loop
DecideThinking(contents, last, claudeMessages, modelName) ==
  IF ~EnableThinkingForMessages(modelName)
  THEN [contents |-> contents, shouldDisableThinking |-> FALSE]
  ELSE IF HasUnsignedThinking(claudeMessages)
  THEN [contents |-> contents, shouldDisableThinking |-> TRUE]
  ELSE IF last = 0 \/ contents[last].parts = << >>
  THEN [contents |-> contents, shouldDisableThinking |-> FALSE]
  ELSE IF ~(\E k \in DOMAIN contents[last].parts : contents[last].parts[k].thought)
  THEN [contents |-> contents, shouldDisableThinking |-> TRUE]
  ELSE IF ~contents[last].parts[1].thought
  THEN [contents |-> [contents EXCEPT ![last].parts =
                        SelectParts(@, IsThought) \o SelectParts(@, IsNotThought)],
        shouldDisableThinking |-> FALSE]
  ELSE [contents |-> contents, shouldDisableThinking |-> FALSE]

WithLastModel(contents, claudeMessages, modelName) ==
  DecideThinking(contents, LastModelIndex(contents), claudeMessages, modelName)

convertClaudeMessagesToGeminiContents(claudeMessages, modelName) ==
  WithLastModel(BuildContents(<< >>, claudeMessages), claudeMessages, modelName)

\* lines 645-651 and 666-669: thinkingConfig.includeThoughts
GenerationEnableThinking(modelName, forceDisableThinking) ==
  /\ ~forceDisableThinking
  /\ \/ EndsWith(modelName, S_thinking_suffix)
     \/ modelName = S_gemini_25_pro
     \/ StartsWith(modelName, S_gemini_3_pro_)
     \/ modelName = S_rev19
     \/ modelName = S_gpt_oss

\* lines 720-730: thoughtSignature is deleted from every part
StripSignatures(contents) ==
  [i \in DOMAIN contents |->
     [contents[i] EXCEPT !.parts =
        [k \in DOMAIN contents[i].parts |->
           [contents[i].parts[k] EXCEPT !.thoughtSignature = ""]]]]

\* lines 720-730 and 761: the request assembled from the converted messages
AssembleRequest(conv, enable, model) ==
  [contents |-> IF Includes(model, S_claude)
                THEN StripSignatures(conv.contents) ELSE conv.contents,
   shouldDisableThinking |-> conv.shouldDisableThinking,
   includeThoughts |-> enable,
   thinkingBudget |-> IF enable THEN 1024 ELSE 0]

WithGenerationConfig(conv, model) ==
  AssembleRequest(conv, GenerationEnableThinking(model, conv.shouldDisableThinking), model)

convertClaudeToGeminiRequest(messages, model) ==
  WithGenerationConfig(convertClaudeMessagesToGeminiContents(messages, model), model)

(***************************************************************************)
(* Translator specification: a request is put together block by block and  *)
(* then translated once for a target model.                                *)
(***************************************************************************)
NoOutput == [contents |-> << >>, shouldDisableThinking |-> FALSE,
             includeThoughts |-> FALSE, thinkingBudget |-> 0]

TotalBlocks(messages) ==
  LET F[i \in 0..Len(messages)] ==
        IF i = 0 THEN 0 ELSE F[i-1] + Len(messages[i].content)
  IN  F[Len(messages)]

TrInitVars ==
  /\ trMessages = << >>
  /\ trModel = << >>
  /\ trParts = << >>
  /\ trOut = NoOutput
  /\ trDone = FALSE

\* a new message with its first content block
TrAddMessage ==
  \E r \in Roles, b \in Blocks :
    /\ ~trDone
    /\ TotalBlocks(trMessages) < MaxBlocks
    /\ trMessages' = Append(trMessages, [role |-> r, content |-> <<b>>])
    /\ UNCHANGED <<trModel, trParts, trOut, trDone, emVars, poolVars, quotaVars, schemaVars>>

\* one more content block in the last message
TrAddBlock ==
  \E b \in Blocks :
    /\ ~trDone
    /\ trMessages # << >>
    /\ TotalBlocks(trMessages) < MaxBlocks
    /\ trMessages' = [trMessages EXCEPT ![Len(trMessages)].content = Append(@, b)]
    /\ UNCHANGED <<trModel, trParts, trOut, trDone, emVars, poolVars, quotaVars, schemaVars>>

\* convertClaudeToGeminiRequest; an empty messages array throws (line 702)
TrTranslate ==
  \E m \in ModelNames :
    /\ ~trDone
    /\ trMessages # << >>
    /\ trModel' = m
    /\ trParts' = [i \in DOMAIN trMessages |->
                     convertClaudeContentToGeminiParts(trMessages[i].content)]
    /\ trOut' = convertClaudeToGeminiRequest(trMessages, m)
    /\ trDone' = TRUE
    /\ UNCHANGED <<trMessages, emVars, poolVars, quotaVars, schemaVars>>

TrNext == TrAddMessage \/ TrAddBlock \/ TrTranslate

(***************************************************************************)
(* TokenManager (src/src/auth/token_manager.js) and ModelCooldownManager   *)
(* (src/src/auth/model_cooldown_manager.js).                               *)
(*                                                                         *)
(* A token object is a record; this.tokens holds references to the objects *)
(* (their refresh_token), so an object that disableToken filtered out of   *)
(* the array is still the object an in-flight call holds.  An async call   *)
(* runs without interruption up to its next await (refreshToken,           *)
(* fetchProjectId, getModelsWithQuotas) and is resumed by the action that  *)
(* delivers the reply.  Times are milliseconds.                            *)
(***************************************************************************)

\* bounds of the exploration
MaxRequests == 3
MaxTicks == 2
MaxCooldownCalls == 2
MaxCooldownRequests == 2
MaxStoreRequests == 2
MaxStoreTicks == 1

\* Date.now() at startup and the step of the clock
T0 == 7200000
TickMs == 30 * 60 * 1000

HourMs == 3600000
RefreshMarginMs == 300000
\* expires_in of the OAuth reply, in seconds
ExpiresIn == 3599
\* this.hourlyLimit, configured by config.credentials.maxUsagePerHour
hourlyLimit == 2
\* quota shares are thousandths; "avgRemaining > 0.01" is "more than 10"
GroupThreshold == 10

NoToken == ""
NoProject == ""
Reqs == {1, 2}

ProjectOf(refreshToken) == IF refreshToken = "A" THEN "pA" ELSE "pB"

\* utils/idGenerator.js is not part of the sources: a random project id,
\* different from every id the upstream hands out
generateProjectId(refreshToken) == IF refreshToken = "A" THEN "gA" ELSE "gB"

\* the models of model_cooldown_manager.js lines 13-19; the group names with
\* non-ASCII characters are transliterated
MODEL_GROUPS == <<
  [group |-> "Claude/GPT",
   models |-> <<"claude-sonnet-4-5-thinking", "claude-opus-4-5-thinking",
                "claude-sonnet-4-5", "gpt-oss-120b-medium">>],
  [group |-> "Tab", models |-> <<"chat_23310", "chat_20706">>],
  [group |-> "Banana", models |-> <<"gemini-2.5-flash-image">>],
  [group |-> "BananaPro", models |-> <<"gemini-3-pro-image">>],
  [group |-> "GeminiOther",
   models |-> <<"gemini-3-pro-high", "rev19-uic3-1p", "gemini-2.5-flash",
                "gemini-3-pro-low", "gemini-2.5-flash-thinking",
                "gemini-2.5-pro", "gemini-2.5-flash-lite">>] >>

InSeq(x, seq) == \E i \in DOMAIN seq : seq[i] = x

\* "" stands for null
getModelGroup(model) ==
  LET hits == {i \in DOMAIN MODEL_GROUPS : InSeq(model, MODEL_GROUPS[i].models)}
  IN  IF hits = {} THEN "" ELSE MODEL_GROUPS[MinOf(hits)].group

getModelsInGroup(group) ==
  LET hits == {i \in DOMAIN MODEL_GROUPS : MODEL_GROUPS[i].group = group}
  IN  IF hits = {} THEN << >> ELSE MODEL_GROUPS[MinOf(hits)].models

\* ---- the accounts file and the token objects ------------------------------
FileToken(refreshToken, enable, timestamp, projectId, disabledModels) ==
  [refresh_token |-> refreshToken, access_token |-> "at0", enable |-> enable,
   timestamp |-> timestamp, expires_in |-> ExpiresIn,
   projectId |-> projectId, disabledModels |-> disabledModels]

FreshToken(refreshToken) ==
  FileToken(refreshToken, TRUE, T0, ProjectOf(refreshToken), << >>)

\* the contents data/accounts.json may have at startup
AccountFiles == {
  << >>,
  <<FreshToken("A"), FreshToken("B")>>,
  <<FileToken("A", TRUE, T0, NoProject, << >>), FreshToken("B")>>,
  <<FileToken("A", TRUE, T0, "pA", <<"claude-sonnet-4-5">>), FreshToken("B")>>,
  <<FileToken("A", FALSE, T0, "pA", << >>), FreshToken("B")>> }

HealthyFile == <<FreshToken("A"), FreshToken("B")>>

WithSessionId(t) ==
  [refresh_token |-> t.refresh_token, access_token |-> t.access_token,
   enable |-> t.enable, timestamp |-> t.timestamp, expires_in |-> t.expires_in,
   projectId |-> t.projectId, disabledModels |-> t.disabledModels,
   sessionId |-> "session"]

StripSessionId(t) ==
  [refresh_token |-> t.refresh_token, access_token |-> t.access_token,
   enable |-> t.enable, timestamp |-> t.timestamp, expires_in |-> t.expires_in,
   projectId |-> t.projectId, disabledModels |-> t.disabledModels]

\* initialize(): the enabled entries of the file, in order
LoadedEntries(file) == SelectSeq(file, LAMBDA t : t.enable)

InitialTokens(file) ==
  [i \in DOMAIN LoadedEntries(file) |-> LoadedEntries(file)[i].refresh_token]

InitialObjects(file) ==
  [rt \in {LoadedEntries(file)[i].refresh_token : i \in DOMAIN LoadedEntries(file)} |->
     WithSessionId(LoadedEntries(file)[
       MinOf({i \in DOMAIN LoadedEntries(file) :
                LoadedEntries(file)[i].refresh_token = rt})])]

\* ---- the state an operation works on --------------------------------------
IdleReq ==
  [pc |-> "idle", op |-> "", model |-> "", attempts |-> 0, totalTokens |-> 0,
   token |-> NoToken, list |-> << >>, pos |-> 0, exclude |-> {},
   result |-> NoToken, healthy |-> FALSE,
   \* for the record: this.tokens when getToken was called, and the value of
   \* this.tokens[this.currentIndex] in each pass of its loop
   pool |-> << >>, examined |-> << >>]

PoolState(l) ==
  [tokens |-> tokens, tok |-> tok, file |-> accountsFile,
   currentIndex |-> currentIndex, quotaCache |-> quotaCache,
   cooldownMap |-> cooldownMap, timerMap |-> timerMap,
   cooldownsFile |-> cooldownsFile, l |-> l]

Return(s, token) == [s EXCEPT !.l.pc = "returned", !.l.result = token]

\* ---- TokenManager ---------------------------------------------------------
isModelDisabled(s, token, modelName) ==
  IF token = NoToken \/ modelName = "" THEN FALSE
  ELSE InSeq(modelName, s.tok[token].disabledModels)

\* utils/log_store.js is not part of the sources: the entries of the ledger
\* for the project that are not older than `since`
getUsageCountSince(projectId, since) ==
  Cardinality({i \in DOMAIN ledger :
                 ledger[i].projectId = projectId /\ ledger[i].timestamp >= since})

\* isWithinHourlyLimit with ">" for ">=" at line 85
isWithinHourlyLimitAbove(s, token) ==
  IF hourlyLimit = 0 THEN TRUE
  ELSE getUsageCountSince(s.tok[token].projectId, now - HourMs) <= hourlyLimit

isWithinHourlyLimit(s, token) ==
  IF hourlyLimit = 0 THEN TRUE
  ELSE getUsageCountSince(s.tok[token].projectId, now - HourMs) < hourlyLimit

moveToNextToken(s) ==
  [s EXCEPT !.currentIndex =
     IF Len(s.tokens) = 0 THEN 0 ELSE (@ + 1) % Len(s.tokens)]

\* a missing timestamp or expires_in is 0
isExpired(t) ==
  IF t.timestamp = 0 \/ t.expires_in = 0 THEN TRUE
  ELSE now >= t.timestamp + (t.expires_in * 1000) - RefreshMarginMs

\* saveToFile that writes the objects as they are, sessionId included
saveToFileWhole(s) ==
  [s EXCEPT !.file =
     [i \in DOMAIN s.file |->
        IF /\ InSeq(s.file[i].refresh_token, s.tokens)
           /\ \A k \in 1..(i - 1) : s.file[k].refresh_token # s.file[i].refresh_token
        THEN s.tok[s.file[i].refresh_token]
        ELSE s.file[i]]]

\* saveToFile that writes this.tokens instead of merging it into the file
saveToFileMemory(s) ==
  [s EXCEPT !.file = [i \in DOMAIN s.tokens |-> StripSessionId(s.tok[s.tokens[i]])]]

\* every token of this.tokens overwrites the first file entry with its
\* refresh_token; the other entries stay as they are
saveToFile(s) ==
  [s EXCEPT !.file =
     [i \in DOMAIN s.file |->
        IF /\ InSeq(s.file[i].refresh_token, s.tokens)
           /\ \A k \in 1..(i - 1) : s.file[k].refresh_token # s.file[i].refresh_token
        THEN StripSessionId(s.tok[s.file[i].refresh_token])
        ELSE s.file[i]]]

disableToken(s, token) ==
  LET s1 == saveToFile([s EXCEPT !.tok[token].enable = FALSE])
      rest == SelectSeq(s1.tokens, LAMBDA t : t # token)
  IN  [s1 EXCEPT !.tokens = rest,
                 !.currentIndex = @ % Max2(Len(rest), 1)]

\* the credential of this.tokens with the access_token of the one given;
\* the access tokens of different credentials differ
disableCurrentToken(s, token) ==
  IF InSeq(token, s.tokens) THEN disableToken(s, token) ELSE s

\* QuotaMonitor.markTokenUsed (the monitor is injected at server start)
markTokenUsed(s, credentialKey) ==
  IF credentialKey = "" THEN s
  ELSE LET entry == IF credentialKey \in DOMAIN s.quotaCache
                    THEN s.quotaCache[credentialKey]
                    ELSE [models |-> << >>, lastCheck |-> 0, lastUsed |-> 0]
       IN  [s EXCEPT !.quotaCache =
              [k \in DOMAIN s.quotaCache \cup {credentialKey} |->
                 IF k = credentialKey THEN [entry EXCEPT !.lastUsed = now]
                 ELSE s.quotaCache[k]]]

\* the reply of refreshToken's POST has arrived (lines 179-183)
refreshed(s, token) ==
  saveToFile([s EXCEPT !.tok[token].access_token = "at1",
                       !.tok[token].expires_in = ExpiresIn,
                       !.tok[token].timestamp = now])

\* "attempts += 1; continue" and the fall-through to line 290
NextAttempt(s) == [s EXCEPT !.l.attempts = @ + 1, !.l.pc = "loop"]

\* getToken from line 266 to the return of line 277
fromHourlyCheck(s) ==
  IF ~isWithinHourlyLimit(s, s.l.token)
  THEN NextAttempt(moveToNextToken(s))
  ELSE Return(markTokenUsed(s, s.tok[s.l.token].projectId), s.l.token)

\* getToken from line 240
fromProjectIdCheck(s) ==
  IF s.tok[s.l.token].projectId = NoProject
  THEN IF skipProjectIdFetch
       THEN fromHourlyCheck(saveToFile(
              [s EXCEPT !.tok[s.l.token].projectId = generateProjectId(s.l.token)]))
       ELSE [s EXCEPT !.l.pc = "fetchProjectId"]
  ELSE fromHourlyCheck(s)

\* one pass of the while loop, from line 226, up to an await, a continue or
\* a return.  With an empty array this.tokens[this.currentIndex] is undefined
\* and isExpired throws a TypeError, which the catch of line 278 takes as an
\* error without statusCode.
loopBody(s) ==
  LET token == IF s.currentIndex < Len(s.tokens)
               THEN s.tokens[s.currentIndex + 1] ELSE NoToken
      s1 == [s EXCEPT !.l.token = token, !.l.examined = Append(@, token)]
  IN  IF isModelDisabled(s1, token, s1.l.model)
      THEN NextAttempt(moveToNextToken(s1))
      ELSE IF token = NoToken
      THEN NextAttempt(moveToNextToken(s1))
      ELSE IF isExpired(s1.tok[token])
      THEN [s1 EXCEPT !.l.pc = "refreshToken"]
      ELSE fromProjectIdCheck(s1)

RECURSIVE whileLoop(_)
whileLoop(s) ==
  IF s.l.pc # "loop" THEN s
  ELSE IF s.l.attempts >= s.l.totalTokens THEN Return(s, NoToken)
  ELSE whileLoop(loopBody(s))

\* the pool is healthy for the model: two or more credentials, none expired,
\* every projectId present, every one below the hourly cap, the model
\* disabled on none
AllHealthy(s, modelName) ==
  /\ Len(s.tokens) >= 2
  /\ \A i \in DOMAIN s.tokens :
       /\ ~isExpired(s.tok[s.tokens[i]])
       /\ s.tok[s.tokens[i]].projectId # NoProject
       /\ isWithinHourlyLimit(s, s.tokens[i])
       /\ ~isModelDisabled(s, s.tokens[i], modelName)

\* getToken whose loop allows one attempt more than there are credentials
getTokenOneMore(s, modelName) ==
  IF Len(s.tokens) = 0 THEN Return(s, NoToken)
  ELSE whileLoop([s EXCEPT !.l.pc = "loop", !.l.attempts = 0,
                           !.l.totalTokens = Len(s.tokens) + 1,
                           !.l.model = modelName, !.l.pool = s.tokens])

\* modelName is trimmed already; "" is a null or blank name
getToken(s, modelName) ==
  IF Len(s.tokens) = 0 THEN Return(s, NoToken)
  ELSE whileLoop([s EXCEPT !.l.pc = "loop", !.l.attempts = 0,
                           !.l.totalTokens = Len(s.tokens),
                           !.l.model = modelName, !.l.pool = s.tokens])

\* getTokenAfterRefresh whose 400/403 branch disables the credential and goes
\* on with it
getTokenAfterRefreshKept(s, outcome) ==
  IF outcome = "ok" THEN whileLoop(fromProjectIdCheck(refreshed(s, s.l.token)))
  ELSE IF outcome = "403"
  THEN whileLoop(fromProjectIdCheck(disableToken(s, s.l.token)))
  ELSE whileLoop(NextAttempt(moveToNextToken(s)))

\* getToken resumed after "await this.refreshToken(token)"
getTokenAfterRefresh(s, outcome) ==
  IF outcome = "ok" THEN whileLoop(fromProjectIdCheck(refreshed(s, s.l.token)))
  ELSE IF outcome = "403"
  THEN LET s1 == disableToken(s, s.l.token)
       IN  IF Len(s1.tokens) = 0 THEN Return(s1, NoToken)
           ELSE whileLoop(NextAttempt(s1))
  ELSE whileLoop(NextAttempt(moveToNextToken(s)))

\* getToken resumed after "await this.fetchProjectId(token)"; a rejection,
\* whatever its status, is caught at line 257
getTokenAfterFetch(s, outcome) ==
  IF outcome = "ok"
  THEN whileLoop(fromHourlyCheck(saveToFile(
         [s EXCEPT !.tok[s.l.token].projectId = ProjectOf(s.l.token)])))
  ELSE IF outcome = "undefined"
  THEN LET s1 == disableToken(s, s.l.token)
       IN  IF Len(s1.tokens) = 0 THEN Return(s1, NoToken)
           ELSE whileLoop(NextAttempt(s1))
  ELSE whileLoop(NextAttempt(moveToNextToken(s)))

getTokenByProjectId(s, projectId) ==
  LET found == {i \in DOMAIN s.tokens :
                  /\ s.tok[s.tokens[i]].projectId = projectId
                  /\ s.tok[s.tokens[i]].enable}
  IN  IF projectId = NoProject \/ Len(s.tokens) = 0 \/ found = {}
      THEN Return(s, NoToken)
      ELSE LET token == s.tokens[MinOf(found)]
               s1 == [s EXCEPT !.l.token = token]
           IN  IF isExpired(s1.tok[token])
               THEN [s1 EXCEPT !.l.pc = "refreshToken"]
               ELSE Return(markTokenUsed(s1, s1.tok[token].projectId), token)

getTokenByProjectIdAfterRefresh(s, outcome) ==
  IF outcome = "ok"
  THEN LET s1 == refreshed(s, s.l.token)
       IN  Return(markTokenUsed(s1, s1.tok[s.l.token].projectId), s.l.token)
  ELSE IF outcome = "403" THEN Return(disableToken(s, s.l.token), NoToken)
  ELSE Return(s, NoToken)

\* ---- ModelCooldownManager -------------------------------------------------
\* cooldownMap is a Map in insertion order: a sequence of records with
\* distinct (projectId, model); timerMap is the set of pending timers.
HasKey(seq, projectId, model) ==
  \E i \in DOMAIN seq : seq[i].projectId = projectId /\ seq[i].model = model

MapGet(seq, projectId, model) ==
  seq[MinOf({i \in DOMAIN seq :
               seq[i].projectId = projectId /\ seq[i].model = model})]

MapSet(seq, info) ==
  IF HasKey(seq, info.projectId, info.model)
  THEN [i \in DOMAIN seq |->
          IF seq[i].projectId = info.projectId /\ seq[i].model = info.model
          THEN info ELSE seq[i]]
  ELSE Append(seq, info)

MapDelete(seq, projectId, model) ==
  SelectSeq(seq, LAMBDA e : ~(e.projectId = projectId /\ e.model = model))

ClearTimer(timers, projectId, model) ==
  {t \in timers : ~(t.projectId = projectId /\ t.model = model)}

\* ModelCooldownManager.saveToFile: the records of the map, in order
saveCooldowns(s) == [s EXCEPT !.cooldownsFile = s.cooldownMap]

\* setCooldownInternal that leaves the timer of the record it replaces
setCooldownInternalKeepsTimer(s, projectId, model, resetTimestamp, reason, shouldSave) ==
  LET delayMs == resetTimestamp - now
      s1 == [s EXCEPT !.cooldownMap = MapSet(@,
                         [projectId |-> projectId, model |-> model,
                          resetTimestamp |-> resetTimestamp,
                          reason |-> reason, createdAt |-> now])]
  IN  IF delayMs > 0
      THEN LET s2 == [s1 EXCEPT !.timerMap = @ \cup
                        {[projectId |-> projectId, model |-> model,
                          fireAt |-> resetTimestamp]}]
           IN  IF shouldSave THEN saveCooldowns(s2) ELSE s2
      ELSE [s1 EXCEPT !.cooldownMap = MapDelete(@, projectId, model)]

setCooldownInternal(s, projectId, model, resetTimestamp, reason, shouldSave) ==
  LET delayMs == resetTimestamp - now
      s1 == [s EXCEPT !.timerMap = ClearTimer(@, projectId, model),
                      !.cooldownMap = MapSet(@,
                         [projectId |-> projectId, model |-> model,
                          resetTimestamp |-> resetTimestamp,
                          reason |-> reason, createdAt |-> now])]
  IN  IF delayMs > 0
      THEN LET s2 == [s1 EXCEPT !.timerMap = @ \cup
                        {[projectId |-> projectId, model |-> model,
                          fireAt |-> resetTimestamp]}]
           IN  IF shouldSave THEN saveCooldowns(s2) ELSE s2
      ELSE [s1 EXCEPT !.cooldownMap = MapDelete(@, projectId, model)]

removeCooldown(s, projectId, model) ==
  saveCooldowns([s EXCEPT !.timerMap = ClearTimer(@, projectId, model),
                          !.cooldownMap = MapDelete(@, projectId, model)])

\* isOnCooldown with "<" for "<=" at line 214
isOnCooldownBefore(s, projectId, model) ==
  IF ~HasKey(s.cooldownMap, projectId, model) THEN [s |-> s, on |-> FALSE]
  ELSE IF MapGet(s.cooldownMap, projectId, model).resetTimestamp < now
  THEN [s |-> removeCooldown(s, projectId, model), on |-> FALSE]
  ELSE [s |-> s, on |-> TRUE]

\* the state after the call and its result
isOnCooldown(s, projectId, model) ==
  IF ~HasKey(s.cooldownMap, projectId, model) THEN [s |-> s, on |-> FALSE]
  ELSE IF MapGet(s.cooldownMap, projectId, model).resetTimestamp <= now
  THEN [s |-> removeCooldown(s, projectId, model), on |-> FALSE]
  ELSE [s |-> s, on |-> TRUE]

clearAll(s) ==
  saveCooldowns([s EXCEPT !.timerMap = {}, !.cooldownMap = << >>])

\* the for loop of setCooldown, lines 122-124
RECURSIVE setGroupCooldowns(_, _, _, _, _)
setGroupCooldowns(s, projectId, models, resetTimestamp, reason) ==
  IF models = << >> THEN s
  ELSE setGroupCooldowns(
         setCooldownInternal(s, projectId, Head(models), resetTimestamp, reason, FALSE),
         projectId, Tail(models), resetTimestamp, reason)

\* the replies of getModelsWithQuotas (api/client.js): per model the
\* remaining share in thousandths; a model may be missing from the reply
QuotaReplies == {
  << >>,
  <<[model |-> "claude-sonnet-4-5", remaining |-> 0],
    [model |-> "claude-opus-4-5-thinking", remaining |-> 0]>>,
  <<[model |-> "claude-sonnet-4-5", remaining |-> 0],
    [model |-> "claude-opus-4-5-thinking", remaining |-> 500]>>,
  <<[model |-> "claude-sonnet-4-5", remaining |-> 10],
    [model |-> "gpt-oss-120b-medium", remaining |-> 10]>> }

\* replies that name models of the group of the Gemini models
GroupReplies == {
  << >>,
  <<[model |-> "gemini-2.5-pro", remaining |-> 10],
    [model |-> "gemini-2.5-flash", remaining |-> 10]>>,
  <<[model |-> "gemini-2.5-pro", remaining |-> 0]>>,
  <<[model |-> "gemini-2.5-pro", remaining |-> 0],
    [model |-> "gemini-3-pro-high", remaining |-> 500]>>,
  <<[model |-> "gemini-2.5-pro", remaining |-> 11],
    [model |-> "claude-sonnet-4-5", remaining |-> 0]>> }

\* lines 103-110: the sum and the number of the group's models in the reply
RECURSIVE SumRemaining(_, _)
SumRemaining(quotas, models) ==
  IF models = << >> THEN [total |-> 0, count |-> 0]
  ELSE LET rest == SumRemaining(quotas, Tail(models))
           hits == {i \in DOMAIN quotas : quotas[i].model = Head(models)}
       IN  IF hits = {} THEN rest
           ELSE [total |-> rest.total + quotas[MinOf(hits)].remaining,
                 count |-> rest.count + 1]

\* avgRemaining >= 0.01
GroupHasQuotaAtLeast(quotas, models) ==
  LET sum == SumRemaining(quotas, models)
  IN  sum.count > 0 /\ sum.total >= GroupThreshold * sum.count

\* avgRemaining > 0.01, without the division
GroupHasQuota(quotas, models) ==
  LET sum == SumRemaining(quotas, models)
  IN  sum.count > 0 /\ sum.total > GroupThreshold * sum.count

\* setCooldown after "await getModelsWithQuotas(token)"; failed: it threw
setCooldownAfterQuotas(s, call, failed, quotas) ==
  LET groupModels == getModelsInGroup(getModelGroup(call.model))
  IN  IF failed \/ GroupHasQuota(quotas, groupModels)
      THEN setCooldownInternal(s, call.projectId, call.model,
                               call.resetTimestamp, call.reason, TRUE)
      ELSE saveCooldowns(setGroupCooldowns(s, call.projectId, groupModels,
                                           call.resetTimestamp, call.reason))

\* getAvailableTokenForModel: the for-of loop over the array read at line 305
RECURSIVE availableLoop(_)
availableLoop(s) ==
  IF s.l.pos > Len(s.l.list) THEN Return(s, NoToken)
  ELSE LET token == s.l.list[s.l.pos]
           s1 == [s EXCEPT !.l.pos = @ + 1, !.l.token = token]
       IN  IF ~s1.tok[token].enable THEN availableLoop(s1)
           ELSE IF s1.tok[token].projectId \in s1.l.exclude THEN availableLoop(s1)
           ELSE LET c == isOnCooldown(s1, s1.tok[token].projectId, s1.l.model)
                IN  IF c.on THEN availableLoop(c.s)
                    ELSE IF isExpired(c.s.tok[token])
                    THEN [c.s EXCEPT !.l.pc = "refreshToken"]
                    ELSE Return(c.s, token)

getAvailableTokenForModel(s, model, excludeProjectIds) ==
  availableLoop([s EXCEPT !.l.model = model, !.l.exclude = excludeProjectIds,
                          !.l.list = s.tokens, !.l.pos = 1])

getAvailableTokenForModelAfterRefresh(s, outcome) ==
  IF outcome = "ok" THEN Return(refreshed(s, s.l.token), s.l.token)
  ELSE availableLoop(s)

\* ---- actions ----------------------------------------------------------------
\* a cooldown of (projectId, model) is installed and its reset time is ahead
Cooling(s, projectId, model) ==
  /\ HasKey(s.cooldownMap, projectId, model)
  /\ MapGet(s.cooldownMap, projectId, model).resetTimestamp > now

InFlight == {r \in Reqs : req[r].pc \notin {"idle", "holding"}}

CanStart(r) ==
  /\ req[r].pc = "idle"
  /\ Len(returned) + Cardinality(InFlight) < MaxRequests

\* the state s of an operation of call r becomes the state of the program; a
\* call that returned is recorded, and the caller holds the credential it got
PoolApply(r, s) ==
  /\ tokens' = s.tokens
  /\ tok' = s.tok
  /\ accountsFile' = s.file
  /\ currentIndex' = s.currentIndex
  /\ quotaCache' = s.quotaCache
  /\ cooldownMap' = s.cooldownMap
  /\ timerMap' = s.timerMap
  /\ cooldownsFile' = s.cooldownsFile
  /\ IF s.l.pc = "returned"
     THEN /\ returned' = Append(returned,
               [op |-> s.l.op, model |-> s.l.model, token |-> s.l.result,
                at |-> now, healthy |-> s.l.healthy,
                pool |-> s.l.pool, examined |-> s.l.examined,
                cooling |-> /\ s.l.result # NoToken
                            /\ Cooling(s, s.tok[s.l.result].projectId, s.l.model)])
          /\ req' = [req EXCEPT ![r] =
               IF s.l.result = NoToken THEN IdleReq
               ELSE [IdleReq EXCEPT !.pc = "holding", !.result = s.l.result]]
     ELSE /\ returned' = returned
          /\ req' = [req EXCEPT ![r] = s.l]
  /\ UNCHANGED <<now, skipProjectIdFetch, ledger, pendingCooldown,
                 cooldownCalls, emVars, trVars, quotaVars, schemaVars>>

\* the state s of a cooldown operation becomes the state of the program
CooldownApply(s) ==
  /\ cooldownMap' = s.cooldownMap
  /\ timerMap' = s.timerMap
  /\ cooldownsFile' = s.cooldownsFile
  /\ UNCHANGED <<now, skipProjectIdFetch, accountsFile, tokens, tok,
                 currentIndex, quotaCache, ledger, req, returned,
                 emVars, trVars, quotaVars, schemaVars>>

RequestModels == {"", "claude-sonnet-4-5"}
CooldownModels == {"claude-sonnet-4-5", "gemini-2.0-flash-exp"}
CooldownProjects == {"pA"}
GroupModels == {"gemini-2.5-pro", "gemini-2.0-flash-exp"}
CooldownModelNames ==
  UNION {{MODEL_GROUPS[g].models[i] : i \in DOMAIN MODEL_GROUPS[g].models} :
           g \in DOMAIN MODEL_GROUPS} \cup GroupModels
ResetTimestamps == {T0, T0 + TickMs}
ExcludeLists == {{}, {"pA"}}

GetTokenCall(r) ==
  \E modelName \in RequestModels :
    /\ CanStart(r)
    /\ LET s == PoolState([IdleReq EXCEPT !.op = "getToken"])
       IN  PoolApply(r, getToken([s EXCEPT !.l.healthy = AllHealthy(s, modelName)],
                                 modelName))

GetTokenByProjectIdCall(r) ==
  \E projectId \in {"pA", "pB", "gA"} :
    /\ CanStart(r)
    /\ PoolApply(r, getTokenByProjectId(
                      PoolState([IdleReq EXCEPT !.op = "getTokenByProjectId"]),
                      projectId))

GetAvailableTokenForModelCall(r) ==
  \E model \in RequestModels \ {""}, exclude \in ExcludeLists :
    /\ CanStart(r)
    /\ PoolApply(r, getAvailableTokenForModel(
                      PoolState([IdleReq EXCEPT !.op = "getAvailableTokenForModel"]),
                      model, exclude))

\* the reply to refreshToken's POST: 200, 400/403, or anything else
RefreshTokenReply(r) ==
  \E outcome \in {"ok", "403", "error"} :
    /\ req[r].pc = "refreshToken"
    /\ PoolApply(r,
         IF req[r].op = "getToken"
         THEN getTokenAfterRefresh(PoolState(req[r]), outcome)
         ELSE IF req[r].op = "getTokenByProjectId"
         THEN getTokenByProjectIdAfterRefresh(PoolState(req[r]), outcome)
         ELSE getAvailableTokenForModelAfterRefresh(PoolState(req[r]), outcome))

\* the reply to fetchProjectId's POST: a project, none, HTTP 400/403 or
\* another error; axios rejects for every status outside 2xx
FetchProjectIdReply(r) ==
  \E outcome \in {"ok", "undefined", "403", "error"} :
    /\ req[r].pc = "fetchProjectId"
    /\ PoolApply(r, getTokenAfterFetch(PoolState(req[r]), outcome))

\* the upstream has refused the credential the caller holds, and the caller
\* has it disabled
DisableCurrentTokenCall(r) ==
  /\ req[r].pc = "holding"
  /\ PoolApply(r, disableCurrentToken(PoolState(IdleReq), req[r].result))

\* the caller has used the credential; the request is written to the usage
\* log (utils/log_store.js, not part of the sources)
RecordUsage(r) ==
  /\ req[r].pc = "holding"
  /\ ledger' = Append(ledger, [projectId |-> tok[req[r].result].projectId,
                               timestamp |-> now])
  /\ req' = [req EXCEPT ![r] = IdleReq]
  /\ UNCHANGED <<now, skipProjectIdFetch, accountsFile, tokens, tok,
                 currentIndex, quotaCache, cooldownMap, timerMap,
                 cooldownsFile, pendingCooldown, cooldownCalls, returned,
                 emVars, trVars, quotaVars, schemaVars>>

Tick ==
  /\ now < T0 + MaxTicks * TickMs
  /\ now' = now + TickMs
  /\ UNCHANGED <<skipProjectIdFetch, accountsFile, tokens, tok, currentIndex,
                 quotaCache, ledger, cooldownMap, timerMap, cooldownsFile,
                 pendingCooldown, cooldownCalls, req, returned, emVars, trVars, quotaVars, schemaVars>>

\* setCooldown up to its first await, or to its end when there is none
SetCooldownAt(models, stamps) ==
  \E projectId \in CooldownProjects, model \in models,
     resetTimestamp \in stamps, withToken \in BOOLEAN :
    LET call == [projectId |-> projectId, model |-> model,
                 resetTimestamp |-> resetTimestamp,
                 reason |-> "RESOURCE_EXHAUSTED"]
    IN  /\ cooldownCalls < MaxCooldownCalls
        /\ cooldownCalls' = cooldownCalls + 1
        /\ IF getModelGroup(model) # "" /\ withToken
           THEN /\ pendingCooldown' = pendingCooldown \cup {call}
                /\ UNCHANGED <<cooldownMap, timerMap, cooldownsFile, now,
                               skipProjectIdFetch, accountsFile, tokens, tok,
                               currentIndex, quotaCache, ledger, req, returned,
                               emVars, trVars, quotaVars, schemaVars>>
           ELSE /\ pendingCooldown' = pendingCooldown
                /\ CooldownApply(setCooldownInternal(PoolState(IdleReq),
                     projectId, model, resetTimestamp, call.reason, TRUE))

SetCooldownCall(models) == SetCooldownAt(models, ResetTimestamps)

\* getModelsWithQuotas has answered or failed
SetCooldownQuotas(replies) ==
  \E call \in pendingCooldown, failed \in BOOLEAN, quotas \in replies :
    /\ pendingCooldown' = pendingCooldown \ {call}
    /\ cooldownCalls' = cooldownCalls
    /\ CooldownApply(setCooldownAfterQuotas(PoolState(IdleReq), call, failed, quotas))

MaxQueries == 1

\* a query of the registry; the call and its result are recorded
IsOnCooldownCall ==
  \E projectId \in CooldownProjects, model \in GroupModels :
    LET c == isOnCooldown(PoolState(IdleReq), projectId, model)
    IN  /\ Len(returned) < MaxQueries
        /\ cooldownMap' = c.s.cooldownMap
        /\ timerMap' = c.s.timerMap
        /\ cooldownsFile' = c.s.cooldownsFile
        /\ returned' = Append(returned,
             [op |-> "isOnCooldown", projectId |-> projectId, model |-> model,
              at |-> now, result |-> c.on,
              held |-> HasKey(cooldownMap, projectId, model)])
        /\ UNCHANGED <<now, skipProjectIdFetch, accountsFile, tokens, tok,
                       currentIndex, quotaCache, ledger, req, pendingCooldown,
                       cooldownCalls, emVars, trVars, quotaVars, schemaVars>>

\* a timer of setCooldownInternal fires
TimerFire ==
  \E t \in timerMap :
    /\ now >= t.fireAt
    /\ UNCHANGED <<pendingCooldown, cooldownCalls>>
    /\ CooldownApply(removeCooldown(PoolState(IdleReq), t.projectId, t.model))

\* the admin operations
RemoveCooldown ==
  \E i \in DOMAIN cooldownMap :
    /\ UNCHANGED <<pendingCooldown, cooldownCalls>>
    /\ CooldownApply(removeCooldown(PoolState(IdleReq),
                                    cooldownMap[i].projectId, cooldownMap[i].model))

ClearAll ==
  /\ cooldownMap # << >>
  /\ UNCHANGED <<pendingCooldown, cooldownCalls>>
  /\ CooldownApply(clearAll(PoolState(IdleReq)))

(***************************************************************************)
(* QuotaMonitor (src/src/auth/quota_monitor.js).  quotaManager.getQuotas   *)
(* (quota_manager.js) is an upstream call: a sweep waits for its reply,    *)
(* and the clock may advance while it waits.  Quota shares are thousandths.*)
(***************************************************************************)
MaxQuotaTicks == 2
MaxSkipTicks == 12
checkInterval == 30 * 60 * 1000
maxSkipMs == 5 * 60 * 60 * 1000
quotaThreshold == 50
Sweeps == {1, 2}

IdleSweep == [pc |-> "idle", accounts |-> << >>, i |-> 0]

\* what getQuotas may answer: nothing, or the models with their remaining
\* share (Null: the entry has no remaining field)
NoQuotas == <<[model |-> "", remaining |-> Null]>>
QuotaResults == {
  NoQuotas,
  << >>,
  <<[model |-> "claude-sonnet-4-5", remaining |-> 50]>>,
  <<[model |-> "claude-sonnet-4-5", remaining |-> 51]>>,
  <<[model |-> "claude-sonnet-4-5", remaining |-> Null],
    [model |-> "gemini-2.5-pro", remaining |-> 1000]>>,
  <<[model |-> "claude-sonnet-4-5", remaining |-> 1000],
    [model |-> "gemini-2.5-pro", remaining |-> 0]>> }

\* account.projectId || account.refresh_token
credentialKey(account) ==
  IF account.projectId # NoProject THEN account.projectId ELSE account.refresh_token

\* shouldSkipCheck that does not look at lastUsed
shouldSkipCheckUnused(s, key) ==
  IF key \notin DOMAIN s.quotaCache THEN FALSE
  ELSE IF s.quotaCache[key].lastCheck = 0 THEN FALSE
  ELSE now - s.quotaCache[key].lastCheck < maxSkipMs

shouldSkipCheck(s, key) ==
  IF key \notin DOMAIN s.quotaCache THEN FALSE
  ELSE LET cacheEntry == s.quotaCache[key]
           hasBeenUsedRecently ==
             cacheEntry.lastUsed > 0 /\ now - cacheEntry.lastUsed < checkInterval
       IN  IF hasBeenUsedRecently THEN FALSE
           ELSE IF cacheEntry.lastCheck = 0 THEN FALSE
           ELSE now - cacheEntry.lastCheck < maxSkipMs

\* the for loop of checkAllQuotas from account i up to the next getQuotas
\* call or to the end of the sweep
RECURSIVE sweepLoop(_)
sweepLoop(s) ==
  IF s.l.i > Len(s.l.accounts) THEN [s EXCEPT !.l.pc = "done"]
  ELSE IF \/ credentialKey(s.l.accounts[s.l.i]) = ""
          \/ shouldSkipCheck(s, credentialKey(s.l.accounts[s.l.i]))
       THEN sweepLoop([s EXCEPT !.l.i = @ + 1])
       ELSE [s EXCEPT !.l.pc = "getQuotas"]

\* checkAllQuotas behind the isChecking guard; the file exists
checkAllQuotas(s) ==
  IF Len(s.file) = 0 THEN [s EXCEPT !.l.pc = "done"]
  ELSE sweepLoop([s EXCEPT
         !.l.accounts = SelectSeq(s.file,
                          LAMBDA acc : acc.enable /\ acc.refresh_token # ""),
         !.l.i = 1])

RemoveFirst(seq, x) ==
  LET k == MinOf({i \in DOMAIN seq : seq[i] = x})
  IN  [i \in 1..(Len(seq) - 1) |-> IF i < k THEN seq[i] ELSE seq[i + 1]]

\* the body of the loop of lines 188-210 with "<" for "<="
applyQuotaBelow(acc, modelName, remaining) ==
  IF remaining < quotaThreshold /\ ~InSeq(modelName, acc.disabledModels)
  THEN [disabledModels |-> Append(acc.disabledModels, modelName),
        hasChanges |-> TRUE]
  ELSE IF remaining >= quotaThreshold /\ InSeq(modelName, acc.disabledModels)
  THEN [disabledModels |-> RemoveFirst(acc.disabledModels, modelName),
        hasChanges |-> TRUE]
  ELSE acc

\* the body of the loop of lines 188-210 for one entry of quotaResult.models
applyQuota(acc, modelName, remaining) ==
  IF remaining <= quotaThreshold /\ ~InSeq(modelName, acc.disabledModels)
  THEN [disabledModels |-> Append(acc.disabledModels, modelName),
        hasChanges |-> TRUE]
  ELSE IF remaining > quotaThreshold /\ InSeq(modelName, acc.disabledModels)
  THEN [disabledModels |-> RemoveFirst(acc.disabledModels, modelName),
        hasChanges |-> TRUE]
  ELSE acc

\* modelInfo.remaining || 0
RemainingOf(modelInfo) ==
  IF modelInfo.remaining = Null THEN 0 ELSE modelInfo.remaining

\* the loop over Object.entries(quotaResult.models)
RECURSIVE applyQuotas(_, _)
applyQuotas(acc, models) ==
  IF models = << >> THEN acc
  ELSE applyQuotas(applyQuota(acc, Head(models).model, RemainingOf(Head(models))),
                   Tail(models))

updateAccountDisabledModels(s, refreshToken, disabledModels) ==
  LET found == {i \in DOMAIN s.file : s.file[i].refresh_token = refreshToken}
      s1 == [s EXCEPT !.file[MinOf(found)].disabledModels = disabledModels]
  IN  IF found = {} THEN s
      ELSE IF InSeq(refreshToken, s1.tokens)
      THEN [s1 EXCEPT !.tok[refreshToken].disabledModels = disabledModels]
      ELSE s1

\* checkQuotaForAccount that writes the cache entry with lastUsed reset
checkQuotaForAccountFreshEntry(s, account, quotaResult) ==
  IF quotaResult = NoQuotas THEN s
  ELSE LET key == credentialKey(account)
           s1 == [s EXCEPT !.quotaCache =
                    [k \in DOMAIN s.quotaCache \cup {key} |->
                       IF k = key
                       THEN [models |-> quotaResult, lastCheck |-> now,
                             lastUsed |-> 0]
                       ELSE s.quotaCache[k]]]
           res == applyQuotas([disabledModels |-> account.disabledModels,
                               hasChanges |-> FALSE], quotaResult)
       IN  IF res.hasChanges
           THEN updateAccountDisabledModels(s1, account.refresh_token,
                                            res.disabledModels)
           ELSE s1

\* checkQuotaForAccount after "await quotaManager.getQuotas(...)"
checkQuotaForAccount(s, account, quotaResult) ==
  IF quotaResult = NoQuotas THEN s
  ELSE LET key == credentialKey(account)
           lastUsed == IF key \in DOMAIN s.quotaCache
                       THEN s.quotaCache[key].lastUsed ELSE 0
           s1 == [s EXCEPT !.quotaCache =
                    [k \in DOMAIN s.quotaCache \cup {key} |->
                       IF k = key
                       THEN [models |-> quotaResult, lastCheck |-> now,
                             lastUsed |-> lastUsed]
                       ELSE s.quotaCache[k]]]
           res == applyQuotas([disabledModels |-> account.disabledModels,
                               hasChanges |-> FALSE], quotaResult)
       IN  IF res.hasChanges
           THEN updateAccountDisabledModels(s1, account.refresh_token,
                                            res.disabledModels)
           ELSE s1

\* checkAllQuotas without the finally of lines 124-126: the flag stays set
QuotaApplyNoFinally(k, s) ==
  /\ tok' = s.tok
  /\ accountsFile' = s.file
  /\ quotaCache' = s.quotaCache
  /\ sweep' = [sweep EXCEPT ![k] = IF s.l.pc = "done" THEN IdleSweep ELSE s.l]
  /\ isChecking' = TRUE
  /\ attempted' = IF s.l.pc = "getQuotas"
                  THEN [attempted EXCEPT ![s.l.accounts[s.l.i].refresh_token] = now]
                  ELSE attempted
  /\ UNCHANGED <<now, skipProjectIdFetch, tokens, currentIndex, ledger,
                 cooldownMap, timerMap, cooldownsFile, pendingCooldown,
                 cooldownCalls, req, returned, emVars, trVars, schemaVars>>

\* ---- actions ----------------------------------------------------------------
\* the state s of sweep k becomes the state of the program; the finally of
\* line 125 clears isChecking when the sweep is over
QuotaApply(k, s) ==
  /\ tok' = s.tok
  /\ accountsFile' = s.file
  /\ quotaCache' = s.quotaCache
  /\ sweep' = [sweep EXCEPT ![k] = IF s.l.pc = "done" THEN IdleSweep ELSE s.l]
  /\ isChecking' = (s.l.pc # "done")
  /\ attempted' = IF s.l.pc = "getQuotas"
                  THEN [attempted EXCEPT ![s.l.accounts[s.l.i].refresh_token] = now]
                  ELSE attempted
  /\ UNCHANGED <<now, skipProjectIdFetch, tokens, currentIndex, ledger,
                 cooldownMap, timerMap, cooldownsFile, pendingCooldown,
                 cooldownCalls, req, returned, emVars, trVars, schemaVars>>

QuotaUnchanged ==
  UNCHANGED <<poolVars, sweep, isChecking, attempted, checked, emVars, trVars, schemaVars>>

\* checkAllQuotas without the isChecking guard of line 81
CheckAllQuotasCallUnguarded(k) ==
  /\ sweep[k].pc = "idle"
  /\ \A j \in Sweeps : j < k => sweep[j].pc # "idle"
  /\ QuotaApply(k, checkAllQuotas(PoolState(IdleSweep)))
  /\ checked' = checked

\* one call of checkAllQuotas, in a sweep slot that is free
CheckAllQuotasCall(k) ==
  /\ sweep[k].pc = "idle"
  /\ \A j \in Sweeps : j < k => sweep[j].pc # "idle"
  /\ IF isChecking
     THEN QuotaUnchanged
     ELSE /\ QuotaApply(k, checkAllQuotas(PoolState(IdleSweep)))
          /\ checked' = checked

\* start(): the first sweep at once, then one every checkInterval
Start ==
  /\ ~intervalId
  /\ intervalId' = TRUE
  /\ nextFire' = now + checkInterval
  /\ startedAt' = now
  /\ \E k \in Sweeps : CheckAllQuotasCall(k)

Stop ==
  /\ intervalId
  /\ intervalId' = FALSE
  /\ UNCHANGED <<nextFire, startedAt>>
  /\ QuotaUnchanged

\* the callback of setInterval
IntervalFire ==
  /\ intervalId
  /\ now >= nextFire
  /\ nextFire' = nextFire + checkInterval
  /\ UNCHANGED <<intervalId, startedAt>>
  /\ \E k \in Sweeps : CheckAllQuotasCall(k)

\* getQuotas has answered (or thrown, which leaves everything as it is)
GetQuotasReply(k, results) ==
  \E quotaResult \in results :
    /\ sweep[k].pc = "getQuotas"
    /\ LET account == sweep[k].accounts[sweep[k].i]
           s == checkQuotaForAccount(PoolState(sweep[k]), account, quotaResult)
       IN  /\ QuotaApply(k, sweepLoop([s EXCEPT !.l.i = @ + 1, !.l.pc = "loop"]))
           /\ checked' = IF quotaResult = NoQuotas THEN checked
                         ELSE [refresh_token |-> account.refresh_token,
                               models |-> quotaResult,
                               before |-> account.disabledModels]
    /\ UNCHANGED <<intervalId, nextFire, startedAt>>

\* getToken hands out a credential: markTokenUsed(token.projectId)
MarkTokenUsed ==
  \E key \in {"pA"} :
    /\ quotaCache' = markTokenUsed(PoolState(IdleSweep), key).quotaCache
    /\ UNCHANGED <<now, skipProjectIdFetch, accountsFile, tokens, tok,
                   currentIndex, ledger, cooldownMap, timerMap, cooldownsFile,
                   pendingCooldown, cooldownCalls, req, returned,
                   intervalId, nextFire, startedAt, isChecking, sweep,
                   attempted, checked, emVars, trVars, schemaVars>>

\* the clock advances; a due interval callback runs before it advances again
QuotaTick(maxTicks) ==
  /\ now < T0 + maxTicks * TickMs
  /\ ~(intervalId /\ now >= nextFire)
  /\ now' = now + TickMs
  /\ UNCHANGED <<skipProjectIdFetch, accountsFile, tokens, tok, currentIndex,
                 quotaCache, ledger, cooldownMap, timerMap, cooldownsFile,
                 pendingCooldown, cooldownCalls, req, returned,
                 intervalId, nextFire, startedAt, isChecking, sweep,
                 attempted, checked, emVars, trVars, schemaVars>>

NoCheck == [refresh_token |-> "", models |-> << >>, before |-> << >>]

QuotaInitVars ==
  /\ intervalId = FALSE
  /\ nextFire = 0
  /\ startedAt = 0
  /\ isChecking = FALSE
  /\ sweep = [k \in Sweeps |-> IdleSweep]
  /\ attempted = [rt \in {"A", "B", "C"} |-> 0]
  /\ checked = NoCheck

QuotaNext ==
  \/ Start
  \/ Stop
  \/ IntervalFire
  \/ \E k \in Sweeps : GetQuotasReply(k, QuotaResults)
  \/ MarkTokenUsed
  \/ QuotaTick(MaxQuotaTicks)

\* the monitor over the hours: one credential, a quota result or none; the
\* reply to getQuotas arrives within the timeout of the upstream call, long
\* before the clock advances by a checkInterval
SkipNext ==
  \/ Start
  \/ IntervalFire
  \/ \E k \in Sweeps : GetQuotasReply(k, {NoQuotas, << >>})
  \/ MarkTokenUsed
  \/ ~isChecking /\ QuotaTick(MaxSkipTicks)

\* ---- cleanJsonSchema (utils/logger.js) -------------------------------------
\* A JSON value: its type, its text when it is a primitive, and its entries
\* in order when it is an object (key, value) or an array (index, value).
JStr(str) == [t |-> "string", a |-> str, kids |-> << >>]
JNum(str) == [t |-> "number", a |-> str, kids |-> << >>]
JBool(str) == [t |-> "boolean", a |-> str, kids |-> << >>]
JNull == [t |-> "null", a |-> "", kids |-> << >>]
JObj(entries) == [t |-> "object", a |-> "", kids |-> entries]
IndexKeys == <<"0", "1", "2", "3">>
JArr(items) ==
  [t |-> "array", a |-> "",
   kids |-> [i \in DOMAIN items |-> [k |-> IndexKeys[i], v |-> items[i]]]]
E(key, value) == <<[k |-> key, v |-> value]>>

\* undefined
NoSchema == [t |-> "undefined", a |-> "", kids |-> << >>]

\* typeof value === 'object'
IsObjectType(value) == value.t \in {"object", "array", "null"}

\* key in obj, obj[key], Object.keys(obj)
HasField(obj, key) == \E i \in DOMAIN obj.kids : obj.kids[i].k = key
Field(obj, key) == obj.kids[MinOf({i \in DOMAIN obj.kids : obj.kids[i].k = key})].v
Keys(obj) == {obj.kids[i].k : i \in DOMAIN obj.kids}
DeleteField(obj, key) ==
  [obj EXCEPT !.kids = SelectSeq(@, LAMBDA e : e.k # key)]
SetField(obj, key, value) ==
  [obj EXCEPT !.kids = [i \in DOMAIN @ |->
                          IF @[i].k = key THEN [k |-> key, v |-> value] ELSE @[i]]]

\* the keys of validationFields, in order; each maps to its own name
validationFields ==
  <<"minLength", "maxLength", "minimum", "maximum", "minItems", "maxItems",
    "minProperties", "maxProperties", "pattern", "format", "multipleOf">>

fieldsToRemove ==
  <<"$schema", "additionalProperties", "uniqueItems", "exclusiveMinimum",
    "exclusiveMaximum">>

\* Array.prototype.join(', ')
RECURSIVE Join(_)
Join(strs) ==
  IF strs = << >> THEN ""
  ELSE IF Len(strs) = 1 THEN strs[1]
  ELSE strs[1] \o ", " \o Join(Tail(strs))

\* String.prototype.trim, for the blank
RECURSIVE TrimStart(_)
TrimStart(str) ==
  IF Len(str) = 0 THEN str
  ELSE IF SubSeq(str, 1, 1) = " " THEN TrimStart(SubSeq(str, 2, Len(str)))
  ELSE str

RECURSIVE TrimEnd(_)
TrimEnd(str) ==
  IF Len(str) = 0 THEN str
  ELSE IF SubSeq(str, Len(str), Len(str)) = " "
  THEN TrimEnd(SubSeq(str, 1, Len(str) - 1))
  ELSE str

Trim(str) == TrimEnd(TrimStart(str))

\* collectValidations: the list it returns
collectValidations(obj) ==
  LET named == SelectSeq(validationFields, LAMBDA field : HasField(obj, field))
  IN  [i \in DOMAIN named |-> named[i] \o ": " \o named[i]]
      \o (IF HasField(obj, "additionalProperties")
             /\ Field(obj, "additionalProperties") = JBool("false")
          THEN <<"no additional properties">> ELSE << >>)

\* cleanObject that drops the validation facets and keeps fieldsToRemove
deleteFacetsOnly(obj) ==
  [obj EXCEPT !.kids = SelectSeq(@, LAMBDA e : ~InSeq(e.k, validationFields))]

\* collectValidations: the object after its delete statements
deleteValidations(obj) ==
  [obj EXCEPT !.kids = SelectSeq(@, LAMBDA e :
      ~InSeq(e.k, validationFields) /\ ~InSeq(e.k, fieldsToRemove))]

\* the test of line 339 without validations.length > 0
appendsValidationsAlways(key, validations, atRoot) ==
  key = "description" /\ atRoot

\* the test of line 339
appendsValidations(key, validations, atRoot) ==
  key = "description" /\ validations # << >> /\ atRoot

\* line 340: `${value || ''} (${validations.join(', ')})`.trim(), for a
\* value that is a string
descriptionOf(value, validations) ==
  JStr(Trim((IF value.t = "string" THEN value.a ELSE "")
            \o " (" \o Join(validations) \o ")"))

\* lines 346-354, on the object named cleaned there
filterRequired(obj) ==
  IF HasField(obj, "required") /\ Field(obj, "required").t = "array"
  THEN LET required == Field(obj, "required")
           filtered ==
             IF HasField(obj, "properties")
                /\ Field(obj, "properties").t \in {"object", "array"}
             THEN LET validProps == Keys(Field(obj, "properties"))
                      kept == SelectSeq(required.kids, LAMBDA e :
                                e.v.t = "string" /\ e.v.a \in validProps)
                  IN  JArr([i \in DOMAIN kept |-> kept[i].v])
             ELSE required
       IN  IF filtered.kids = << >> THEN DeleteField(obj, "required")
           ELSE SetField(obj, "required", filtered)
  ELSE obj

\* cleanObject(obj, path); atRoot: path === ''
RECURSIVE cleanObject(_, _)
cleanObject(obj, atRoot) ==
  IF obj.t = "array"
  THEN [obj EXCEPT !.kids = [i \in DOMAIN @ |->
          [k |-> @[i].k,
           v |-> IF IsObjectType(@[i].v) THEN cleanObject(@[i].v, atRoot)
                 ELSE @[i].v]]]
  ELSE IF obj.t = "object"
  THEN LET validations == collectValidations(obj)
           entries == deleteValidations(obj).kids
       IN  filterRequired([obj EXCEPT !.kids = [i \in DOMAIN entries |->
             [k |-> entries[i].k,
              v |-> IF appendsValidations(entries[i].k, validations, atRoot)
                    THEN descriptionOf(entries[i].v, validations)
                    ELSE IF IsObjectType(entries[i].v)
                    THEN cleanObject(entries[i].v, FALSE)
                    ELSE entries[i].v]]])
  ELSE obj

cleanJsonSchema(schema) ==
  IF ~(schema.t \in {"object", "array"}) THEN schema
  ELSE cleanObject(schema, TRUE)

\* the argument after the call: collectValidations deletes from the objects
\* cleanObject visits
RECURSIVE visited(_, _)
visited(obj, atRoot) ==
  IF obj.t = "array"
  THEN [obj EXCEPT !.kids = [i \in DOMAIN @ |->
          [k |-> @[i].k, v |-> visited(@[i].v, atRoot)]]]
  ELSE IF obj.t = "object"
  THEN LET validations == collectValidations(obj)
           entries == deleteValidations(obj).kids
       IN  [obj EXCEPT !.kids = [i \in DOMAIN entries |->
             [k |-> entries[i].k,
              v |-> IF appendsValidations(entries[i].k, validations, atRoot)
                    THEN entries[i].v
                    ELSE visited(entries[i].v, FALSE)]]]
  ELSE obj

\* the schemas: a root object with or without description, properties,
\* required and facets
Descriptions ==
  {<< >>, E("description", JStr("")), E("description", JStr("a tool")),
   E("description", JStr(" a tool "))}

PlainX == JObj(E("type", JStr("string")))
BoundedX == JObj(E("type", JStr("string")) \o E("minLength", JNum("3")))
InnerObject ==
  JObj(E("type", JStr("object")) \o E("description", JStr("inner"))
       \o E("properties", JObj(E("y", JObj(E("type", JStr("number"))
                                           \o E("minimum", JNum("0"))))))
       \o E("required", JArr(<<JStr("y"), JStr("z")>>))
       \o E("additionalProperties", JBool("false")))

PropertyLists ==
  {<< >>,
   E("properties", JObj(<< >>)),
   E("properties", JObj(E("x", PlainX))),
   E("properties", JObj(E("x", BoundedX))),
   E("properties", JObj(E("format", PlainX) \o E("x", PlainX))),
   E("properties", JObj(E("x", InnerObject))),
   E("items", JArr(<<BoundedX, JStr("s")>>))}

RequiredLists ==
  {<< >>, E("required", JArr(<< >>)), E("required", JArr(<<JStr("x")>>)),
   E("required", JArr(<<JStr("x"), JStr("y")>>)),
   E("required", JArr(<<JStr("y")>>)),
   E("required", JArr(<<JStr("format"), JStr("x")>>))}

RootFacets ==
  {<< >>,
   E("additionalProperties", JBool("false")),
   E("additionalProperties", JBool("true")),
   E("$schema", JStr("http://json-schema.org/draft-07/schema#")),
   E("additionalProperties", JBool("false"))
     \o E("$schema", JStr("http://json-schema.org/draft-07/schema#")),
   E("maxProperties", JNum("4")) \o E("minProperties", JNum("1")),
   E("pattern", JStr("p")) \o E("additionalProperties", JBool("false"))}

Schemas ==
  {JObj(E("type", JStr("object")) \o d \o p \o r \o f) :
     d \in Descriptions, p \in PropertyLists, r \in RequiredLists,
     f \in RootFacets}
  \cup {JStr("string"), JNull, JArr(<<BoundedX>>)}

\* cleaned = cleanJsonSchema(given)
CleanCall ==
  /\ cleaned = NoSchema
  /\ cleaned' = cleanJsonSchema(given)
  /\ given' = visited(given, TRUE)
  /\ UNCHANGED <<input, recleaned, emVars, trVars, poolVars, quotaVars>>

\* cleanJsonSchema(cleaned)
CleanAgainCall ==
  /\ cleaned # NoSchema
  /\ recleaned = NoSchema
  /\ recleaned' = cleanJsonSchema(cleaned)
  /\ cleaned' = visited(cleaned, TRUE)
  /\ UNCHANGED <<input, given, emVars, trVars, poolVars, quotaVars>>

SchemaNext == CleanCall \/ CleanAgainCall

SchemaInitVars(schemas) ==
  /\ input \in schemas
  /\ given = input
  /\ cleaned = NoSchema
  /\ recleaned = NoSchema

SchemaUnused == SchemaInitVars({NoSchema})

PoolInitWith(files, log) ==
  /\ QuotaInitVars
  /\ now = T0
  /\ skipProjectIdFetch \in BOOLEAN
  /\ accountsFile \in files
  /\ tokens = InitialTokens(accountsFile)
  /\ tok = InitialObjects(accountsFile)
  /\ currentIndex = 0
  /\ quotaCache = << >>
  /\ ledger = log
  /\ cooldownMap = << >>
  /\ timerMap = {}
  /\ cooldownsFile = << >>
  /\ pendingCooldown = {}
  /\ cooldownCalls = 0
  /\ req = [r \in Reqs |-> IdleReq]
  /\ returned = << >>

PoolInitVars(files) == PoolInitWith(files, << >>)

\* the usage log holds hourlyLimit requests of the project of A, just made
CappedLog == [i \in 1..hourlyLimit |-> [projectId |-> "pA", timestamp |-> T0]]

\* getToken on the pool [A, B] while A is at its hourly cap
CapNext ==
  \/ \E r \in Reqs : GetTokenCall(r)
  \/ \E r \in Reqs : RefreshTokenReply(r)
  \/ \E r \in Reqs : RecordUsage(r)
  \/ Tick

\* the entry the admin side adds to accounts.json while the server runs
AdminEntry == FileToken("C", TRUE, T0, "pC", << >>)

\* an account is added on the admin side: the entry is appended to the file
\* and is not loaded into this.tokens
AdminAdd ==
  /\ \A i \in DOMAIN accountsFile : accountsFile[i].refresh_token # "C"
  /\ accountsFile' = Append(accountsFile, AdminEntry)
  /\ UNCHANGED <<now, skipProjectIdFetch, tokens, tok, currentIndex,
                 quotaCache, ledger, cooldownMap, timerMap, cooldownsFile,
                 pendingCooldown, cooldownCalls, req, returned, emVars, trVars,
                 quotaVars, schemaVars>>

\* B was saved more than an hour before the start: it is expired
StaleToken(refreshToken) ==
  FileToken(refreshToken, TRUE, T0 - HourMs, ProjectOf(refreshToken), << >>)

StoreFiles == {
  <<FileToken("A", TRUE, T0, NoProject, << >>), StaleToken("B")>>,
  <<FileToken("A", TRUE, T0, "pA", <<"claude-sonnet-4-5">>), StaleToken("B")>> }

StoreReplies == {
  NoQuotas,
  <<[model |-> "claude-sonnet-4-5", remaining |-> 0]>>,
  <<[model |-> "claude-sonnet-4-5", remaining |-> 1000]>> }

\* the writers of accounts.json side by side: one caller of getToken at a
\* time, the quota monitor, and the admin side
StoreNext ==
  \/ Len(returned) < MaxStoreRequests /\ GetTokenCall(1)
  \/ RefreshTokenReply(1)
  \/ FetchProjectIdReply(1)
  \/ RecordUsage(1)
  \/ Start
  \/ IntervalFire
  \/ \E k \in Sweeps : GetQuotasReply(k, StoreReplies)
  \/ AdminAdd
  \/ QuotaTick(MaxStoreTicks)

\* overlapping getToken calls and the replies they wait for
LoopNext ==
  \/ \E r \in Reqs : GetTokenCall(r)
  \/ \E r \in Reqs : RefreshTokenReply(r)
  \/ \E r \in Reqs : FetchProjectIdReply(r)
  \/ \E r \in Reqs : RecordUsage(r)
  \/ \E r \in Reqs : DisableCurrentTokenCall(r)

PoolNext ==
  \/ \E r \in Reqs : GetTokenCall(r)
  \/ \E r \in Reqs : GetTokenByProjectIdCall(r)
  \/ \E r \in Reqs : RefreshTokenReply(r)
  \/ \E r \in Reqs : FetchProjectIdReply(r)
  \/ \E r \in Reqs : RecordUsage(r)
  \/ Tick

CooldownNext ==
  \/ SetCooldownCall(CooldownModels)
  \/ SetCooldownQuotas(QuotaReplies)
  \/ TimerFire
  \/ RemoveCooldown
  \/ ClearAll
  \/ Len(returned) < MaxCooldownRequests /\ GetTokenCall(1)
  \/ Len(returned) < MaxCooldownRequests /\ GetAvailableTokenForModelCall(1)
  \/ RefreshTokenReply(1)
  \/ RecordUsage(1)
  \/ Tick

\* reset times now, one and two steps of the clock ahead
TimerStamps == {T0, T0 + TickMs, T0 + 2 * TickMs}

\* the registry and its timers: records are installed and replaced, queried
\* or not, while the clock advances
TimersNext ==
  \/ SetCooldownAt(GroupModels, TimerStamps)
  \/ SetCooldownQuotas(GroupReplies)
  \/ IsOnCooldownCall
  \/ TimerFire
  \/ Tick

\* the registry alone: calls of setCooldown and isOnCooldown, the timers
GroupNext ==
  \/ SetCooldownCall(GroupModels)
  \/ SetCooldownQuotas(GroupReplies)
  \/ IsOnCooldownCall
  \/ TimerFire
  \/ Tick

(***************************************************************************)
(* Emitter specification: one action per method call.                      *)
(***************************************************************************)
EmInitVars ==
  /\ nextIndex = 0
  /\ textBlockIndex = Null
  /\ thinkingBlockIndex = Null
  /\ finished = FALSE
  /\ totalOutputTokens = 0
  /\ inputTokens \in InputTokenChoices
  /\ events = << >>
  /\ endCount = 0
  /\ calls = << >>

EmApply(s, call) ==
  /\ Len(calls) < MaxCalls
  /\ nextIndex' = s.nextIndex
  /\ textBlockIndex' = s.text
  /\ thinkingBlockIndex' = s.thinking
  /\ finished' = s.finished
  /\ totalOutputTokens' = s.tokens
  /\ events' = s.events
  /\ endCount' = s.ends
  /\ calls' = Append(calls, call)
  /\ UNCHANGED <<inputTokens, trVars, poolVars, quotaVars, schemaVars>>

Call(op, text, tools, usage) ==
  [op |-> op, text |-> text, tools |-> tools, usage |-> usage]

EmStart == EmApply(start(EmState), Call("start", "", << >>, NoUsage))

EmSendText ==
  \E t \in TextChunks :
    EmApply(sendText(EmState, t), Call("sendText", t, << >>, NoUsage))

EmSendThinking ==
  \E t \in ThinkingChunks :
    EmApply(sendThinking(EmState, t), Call("sendThinking", t, << >>, NoUsage))

EmSendToolCalls ==
  \E tc \in ToolCallLists :
    EmApply(sendToolCalls(EmState, tc), Call("sendToolCalls", "", tc, NoUsage))

EmFinish ==
  \E u \in Usages :
    EmApply(finish(EmState, u), Call("finish", "", << >>, u))

EmNext == EmStart \/ EmSendText \/ EmSendThinking \/ EmSendToolCalls \/ EmFinish

\* under the emitter's and the translator's specification the pool is empty
PoolUnused == PoolInitVars({<< >>}) /\ skipProjectIdFetch = FALSE

EmInit == EmInitVars /\ TrInitVars /\ PoolUnused /\ SchemaUnused
TrInit == TrInitVars /\ EmInitVars /\ inputTokens = 0 /\ PoolUnused /\ SchemaUnused
PoolInit == PoolInitVars(AccountFiles) /\ EmInitVars /\ inputTokens = 0 /\ TrInitVars /\ SchemaUnused
QuotaInit ==
  /\ PoolInitVars(AccountFiles) /\ skipProjectIdFetch = FALSE
  /\ EmInitVars /\ inputTokens = 0 /\ TrInitVars /\ SchemaUnused

SkipInit ==
  /\ PoolInitVars({<<FreshToken("A")>>}) /\ skipProjectIdFetch = FALSE
  /\ EmInitVars /\ inputTokens = 0 /\ TrInitVars /\ SchemaUnused

CapInit ==
  /\ PoolInitWith({HealthyFile}, CappedLog) /\ skipProjectIdFetch = FALSE
  /\ EmInitVars /\ inputTokens = 0 /\ TrInitVars /\ SchemaUnused

StoreInit ==
  /\ PoolInitVars(StoreFiles) /\ skipProjectIdFetch = FALSE
  /\ EmInitVars /\ inputTokens = 0 /\ TrInitVars /\ SchemaUnused

LoopInit ==
  /\ PoolInitVars({<<FileToken("A", TRUE, T0, NoProject, << >>), StaleToken("B")>>})
  /\ skipProjectIdFetch = FALSE
  /\ EmInitVars /\ inputTokens = 0 /\ TrInitVars /\ SchemaUnused

CooldownInit ==
  /\ PoolInitVars({HealthyFile}) /\ skipProjectIdFetch = FALSE
  /\ EmInitVars /\ inputTokens = 0 /\ TrInitVars /\ SchemaUnused

SchemaInit ==
  /\ SchemaInitVars(Schemas)
  /\ EmInitVars /\ inputTokens = 0 /\ TrInitVars /\ PoolUnused

SpecEmitter == EmInit /\ [][EmNext]_vars
SpecTranslate == TrInit /\ [][TrNext]_vars
SpecPool == PoolInit /\ [][PoolNext]_vars
SpecCooldown == CooldownInit /\ [][CooldownNext]_vars
SpecGroup == CooldownInit /\ [][GroupNext]_vars

\* a timer whose time has come
TimerDue == \E t \in timerMap : now >= t.fireAt
\* the callback of a due timer runs: the only step that takes a timer away
\* without a call of setCooldown or of isOnCooldown
TimerFired ==
  /\ TimerDue
  /\ timerMap' # timerMap
  /\ cooldownCalls' = cooldownCalls /\ pendingCooldown' = pendingCooldown
  /\ returned' = returned

\* the event loop runs the callbacks of due timers and the clock advances:
\* weak fairness of TimerFire and of Tick, with their enabling conditions
SpecTimers ==
  /\ CooldownInit /\ [][TimersNext]_vars
  /\ []<>(~TimerDue) \/ []<><<TimerFired>>_vars
  /\ []<>(now >= T0 + MaxTicks * TickMs) \/ []<><<now' # now>>_vars
SpecSchema == SchemaInit /\ [][SchemaNext]_vars
SpecCap == CapInit /\ [][CapNext]_vars
SpecStore == StoreInit /\ [][StoreNext]_vars
\* call r waits for the reply to a refresh or to a project discovery
Waiting(r) == req[r].op = "getToken" /\ req[r].pc \in {"refreshToken", "fetchProjectId"}

\* the reply call r waits for arrives: the only step that moves a waiting call
Answered(r) == Waiting(r) /\ req'[r] # req[r]

\* every refresh and every project discovery a call waits for is answered:
\* weak fairness of the replies, which are enabled exactly while the call
\* waits
SpecLoop ==
  /\ LoopInit /\ [][LoopNext]_vars
  /\ \A r \in Reqs : []<>(~Waiting(r)) \/ []<><<Answered(r)>>_vars
SpecQuota == QuotaInit /\ [][QuotaNext]_vars
SpecSkip == SkipInit /\ [][SkipNext]_vars

(***************************************************************************)
(* Reading the event stream.                                               *)
(***************************************************************************)
IsStart(e) == e.type = "content_block_start"
IsStop(e)  == e.type = "content_block_stop"

\* Block indices started and not yet stopped in the first n events.
OpenAt(evs, n) ==
  {k \in {evs[i].index : i \in 1..n} :
     \E i \in 1..n :
       /\ IsStart(evs[i]) /\ evs[i].index = k
       /\ \A j \in (i+1)..n : ~(IsStop(evs[j]) /\ evs[j].index = k)}

CountType(evs, type) == Cardinality({i \in 1..Len(evs) : evs[i].type = type})

CallCount(op) == Cardinality({i \in 1..Len(calls) : calls[i].op = op})

\* Every start is followed by exactly one stop of its index, and every stop
\* closes a block that is open when it is written.
BlockDiscipline(evs) ==
  /\ \A i \in 1..Len(evs) :
       IsStart(evs[i]) =>
         Cardinality({j \in (i+1)..Len(evs) :
                        IsStop(evs[j]) /\ evs[j].index = evs[i].index}) = 1
  /\ \A j \in 1..Len(evs) :
       IsStop(evs[j]) => evs[j].index \in OpenAt(evs, j - 1)

C5_StartStopMatched == finished => BlockDiscipline(events)

(***************************************************************************)
(* C6: the call sequence start, sendThinking("a"), sendText("b"),          *)
(* sendToolCalls([t1/f/"{}"]), finish({10, 3}) writes exactly the twelve   *)
(* events of the scenario, in order.                                       *)
(***************************************************************************)
ScenarioCalls ==
  << Call("start", "", << >>, NoUsage),
     Call("sendThinking", "a", << >>, NoUsage),
     Call("sendText", "b", << >>, NoUsage),
     Call("sendToolCalls", "", <<ToolT1>>, NoUsage),
     Call("finish", "", << >>, Usage10_3) >>

ScenarioEvents ==
  << MessageStartEv(inputTokens),
     BlockStartEv(0, "thinking"),
     BlockDeltaEv(0, "thinking_delta", "a"),
     BlockStopEv(0),
     BlockStartEv(1, "text"),
     BlockDeltaEv(1, "text_delta", "b"),
     BlockStopEv(1),
     BlockStartEv(2, "tool_use"),
     BlockDeltaEv(2, "input_json_delta", "{}"),
     BlockStopEv(2),
     MessageDeltaEv(10, 3),
     MessageStopEv >>

C6_Scenario == (calls = ScenarioCalls) => (events = ScenarioEvents)

C6_Witness == calls = ScenarioCalls /\ Len(events) = 12

(***************************************************************************)
(* C7: finish is idempotent: a finish call on a finished emitter writes no *)
(* event, does not end the response and leaves the emitter state as it is; *)
(* message_delta and message_stop are written at most once.                *)
(***************************************************************************)
FinishCalled == Len(calls') = Len(calls) + 1 /\ calls'[Len(calls')].op = "finish"

C7_FinishIdempotent ==
  /\ [](/\ CountType(events, "message_delta") <= 1
        /\ CountType(events, "message_stop") <= 1
        /\ endCount <= 1)
  /\ [][(finished /\ FinishCalled) =>
          UNCHANGED <<nextIndex, textBlockIndex, thinkingBlockIndex, finished,
                      totalOutputTokens, inputTokens, events, endCount>>]_vars

C7_Witness ==
  /\ finished
  /\ CallCount("finish") >= 2
  /\ CountType(events, "message_stop") = 1

(***************************************************************************)
(* Reading a translation.                                                  *)
(***************************************************************************)
\* The contents entry a message ends up in: consecutive messages of the same
\* role share one entry.
EntryOf(messages, i) ==
  LET F[k \in 1..i] ==
        IF k = 1 THEN 1
        ELSE IF messages[k].role = messages[k-1].role THEN F[k-1] ELSE F[k-1] + 1
  IN  F[i]

Signed(parts) == {k \in DOMAIN parts : parts[k].thoughtSignature # ""}

\* the signature of the first thinking block that has one ("" when none has)
FirstSignature(content) ==
  LET S == {k \in DOMAIN content :
              content[k].type = "thinking" /\ content[k].signature # ""}
  IN  IF S = {} THEN "" ELSE content[MinOf(S)].signature

(***************************************************************************)
(* C8: for a gemini-3 target, every produced model entry whose source      *)
(* assistant turn carried a non-empty thinking signature has exactly one   *)
(* part with thoughtSignature, also when the entry merges consecutive      *)
(* assistant messages.                                                     *)
(***************************************************************************)
C8_OneSignaturePerTurn ==
  (trDone /\ Includes(trModel, S_gemini_3)) =>
    \A e \in DOMAIN trOut.contents :
      ( /\ trOut.contents[e].role = "model"
        /\ \E i \in DOMAIN trMessages :
             /\ EntryOf(trMessages, i) = e
             /\ FirstSignature(trMessages[i].content) # "" )
      => Cardinality(Signed(trOut.contents[e].parts)) = 1

(***************************************************************************)
(* C9: for a target model that is not of the gemini-3 family, or is of the *)
(* Claude family, no produced part carries a thoughtSignature.             *)
(***************************************************************************)
C9_NoSignatureForOtherModels ==
  (trDone /\ (~Includes(trModel, S_gemini_3) \/ Includes(trModel, S_claude))) =>
    \A e \in DOMAIN trOut.contents : Signed(trOut.contents[e].parts) = {}

(***************************************************************************)
(* C10: the first non-empty signature of an assistant message is attached  *)
(* to the first functionCall part if there is one, else to the last        *)
(* non-thought text part, else to the last thought part, and to no other   *)
(* part; [thinking t1/S, text hi] for a gemini-3 model gives               *)
(* [{text t1, thought}, {text hi, thoughtSignature S}].                    *)
(***************************************************************************)
ExpectedSigned(parts) ==
  LET fc == {k \in DOMAIN parts : parts[k].kind = "functionCall"}
      tx == {k \in DOMAIN parts : parts[k].kind = "text" /\ ~parts[k].thought}
      th == {k \in DOMAIN parts : parts[k].kind = "text" /\ parts[k].thought}
  IN  IF fc # {} THEN {MinOf(fc)}
      ELSE IF tx # {} THEN {MaxOf(tx)}
      ELSE IF th # {} THEN {MaxOf(th)}
      ELSE {}

ExampleContent == <<ThinkingBlock("t1", "S"), TextBlock("hi")>>
ExampleParts ==
  << Part("text", "t1", TRUE, "", "", ""),
     [Part("text", "hi", FALSE, "", "", "") EXCEPT !.thoughtSignature = "S"] >>

ReturnCount(token) ==
  Cardinality({i \in DOMAIN returned :
                 returned[i].op = "getToken" /\ returned[i].token = token})

\* only getToken has been called, each time on a pool of two or more
\* credentials that were all healthy for the requested model
OnlyHealthyGetToken ==
  \A i \in DOMAIN returned : returned[i].op = "getToken" /\ returned[i].healthy

\* C1: round-robin fairness.  After any sequence of getToken(model) calls on
\* a pool of two or more credentials that are all healthy, the numbers of
\* times any two credentials have been returned differ by at most one.
C1_RoundRobinFairness ==
  OnlyHealthyGetToken =>
    \A a \in DOMAIN tok, b \in DOMAIN tok : ReturnCount(a) - ReturnCount(b) <= 1

\* C2: cooldown respect.  While a cooldown of (p, m) installed by setCooldown
\* is in the registry and its reset time is ahead, no getToken(m) returns the
\* credential whose projectId is p.
C2_CooldownRespect ==
  \A i \in DOMAIN returned : returned[i].op = "getToken" => ~returned[i].cooling

\* the selections of the credential of selection i, by getToken or
\* getTokenByProjectId, in the 60 minutes that end with selection i
SelectionsInHour(i) ==
  {j \in 1..i :
     /\ returned[j].op \in {"getToken", "getTokenByProjectId"}
     /\ returned[j].token = returned[i].token
     /\ returned[j].at > returned[i].at - HourMs}

\* C3: hourly cap.  In every rolling 60-minute window a credential is
\* selected (returned by getToken or getTokenByProjectId) at most hourlyLimit
\* times, whatever the calls in flight and however late the usage log is
\* written.
C3_HourlyCap ==
  \A i \in DOMAIN returned :
    returned[i].token # NoToken => Cardinality(SelectionsInHour(i)) <= hourlyLimit

(***************************************************************************)
(* Quota monitor                                                           *)
(***************************************************************************)
FileEntry(refreshToken) ==
  accountsFile[MinOf({i \in DOMAIN accountsFile :
                        accountsFile[i].refresh_token = refreshToken})]

NamedIn(models, modelName) == \E i \in DOMAIN models : models[i].model = modelName

NoDuplicates(seq) == \A i \in DOMAIN seq, j \in DOMAIN seq : seq[i] = seq[j] => i = j

\* C11: quota threshold hysteresis.  After checkQuotaForAccount has processed
\* a quota result for a credential, every model named in the result is in the
\* credential's disabledModels (in the accounts file and in the token of the
\* pool) iff its remaining share is at most 5%; the other models are in it
\* iff they were before; no model is in it twice.
C11_QuotaHysteresis ==
  checked # NoCheck =>
    LET disabledModels == FileEntry(checked.refresh_token).disabledModels
    IN  /\ \A i \in DOMAIN checked.models :
             InSeq(checked.models[i].model, disabledModels)
               <=> RemainingOf(checked.models[i]) <= quotaThreshold
        /\ \A m \in {"claude-sonnet-4-5", "gemini-2.5-pro"} :
             ~NamedIn(checked.models, m) =>
               (InSeq(m, disabledModels) <=> InSeq(m, checked.before))
        /\ NoDuplicates(disabledModels)
        /\ InSeq(checked.refresh_token, tokens) =>
             tok[checked.refresh_token].disabledModels = disabledModels

\* a result that disabled one model, re-enabled none and left one alone
C11_Witness ==
  /\ checked # NoCheck
  /\ checked.before = <<"claude-sonnet-4-5">>
  /\ FileEntry(checked.refresh_token).disabledModels = <<"gemini-2.5-pro">>

\* C12: quota sweeps are serialized.  At no time are two executions of
\* checkAllQuotas past the isChecking guard, and a call of checkAllQuotas
\* (by start or by the interval timer) made while a sweep is running checks
\* nothing and changes nothing of the monitor.
C12_SweepsSerialized ==
  /\ [](Cardinality({k \in Sweeps : sweep[k].pc # "idle"}) <= 1)
  /\ [](isChecking <=> \E k \in Sweeps : sweep[k].pc # "idle")
  /\ [][(isChecking /\ (nextFire' # nextFire \/ (~intervalId /\ intervalId')))
          => UNCHANGED <<sweep, isChecking, attempted, checked, quotaCache,
                         accountsFile, tok>>]_vars

\* the sweep start() began is still waiting for its first reply after the
\* interval timer has fired
C12_Witness ==
  /\ intervalId
  /\ nextFire = startedAt + 2 * checkInterval
  /\ sweep[1].pc = "getQuotas"
  /\ sweep[1].i = 1
  /\ attempted[sweep[1].accounts[1].refresh_token] = startedAt

\* the skip rule, stated on the cache entry of the key
SkipExpected(key) ==
  /\ key \in DOMAIN quotaCache
  /\ ~(quotaCache[key].lastUsed > 0 /\ now - quotaCache[key].lastUsed < checkInterval)
  /\ quotaCache[key].lastCheck > 0
  /\ now - quotaCache[key].lastCheck < maxSkipMs

\* C13: skip rule.  shouldSkipCheck(key) is true iff the credential was not
\* used within the last 30 minutes and its last successful check is less than
\* 5 hours old; a key without cache entry or recorded check is never skipped;
\* a sweep checks the credential iff the rule does not skip it; and while the
\* monitor runs no credential goes more than 5 hours and one interval without
\* a check being attempted.
C13_SkipRule ==
  /\ [](\A key \in {"pA", "A"} :
          /\ shouldSkipCheck(PoolState(IdleSweep), key) <=> SkipExpected(key)
          /\ (key \notin DOMAIN quotaCache => ~shouldSkipCheck(PoolState(IdleSweep), key)))
  /\ [][(~isChecking /\ nextFire' # nextFire)
          => ((attempted'["A"] = now /\ isChecking') <=> ~SkipExpected("pA"))]_vars
  /\ [](intervalId =>
          now - Max2(attempted["A"], startedAt) <= maxSkipMs + checkInterval)

\* a sweep checks the credential again because its last check is 5 hours old
C13_Witness ==
  /\ "pA" \in DOMAIN quotaCache
  /\ quotaCache["pA"].lastCheck > 0
  /\ attempted["A"] - quotaCache["pA"].lastCheck >= maxSkipMs
  /\ sweep[1].pc = "getQuotas"

(***************************************************************************)
(* Cooldown registry                                                       *)
(***************************************************************************)
RECURSIVE SumOf(_, _)
SumOf(quotas, I) ==
  IF I = {} THEN 0
  ELSE LET i == MinOf(I) IN quotas[i].remaining + SumOf(quotas, I \ {i})

\* the average remaining share of the group's models the reply names is
\* above 1% (shares in thousandths)
AverageAbove(quotas, groupModels) ==
  LET I == {i \in DOMAIN quotas : InSeq(quotas[i].model, groupModels)}
  IN  I # {} /\ SumOf(quotas, I) > GroupThreshold * Cardinality(I)

SameElsewhere(before, after, pairs) ==
  \A projectId \in CooldownProjects, m \in CooldownModelNames :
    <<projectId, m>> \notin pairs =>
      /\ HasKey(after, projectId, m) <=> HasKey(before, projectId, m)
      /\ HasKey(after, projectId, m) =>
           MapGet(after, projectId, m) = MapGet(before, projectId, m)

Installed(map, projectId, m, resetTimestamp) ==
  /\ HasKey(map, projectId, m)
  /\ MapGet(map, projectId, m).resetTimestamp = resetTimestamp

\* C14: group cooldown.  In every state of the registry, setCooldown(p, m,
\* resetAt, reason, cred) for a model m of a group, a reset time ahead and a
\* quota reply installs the cooldown on (p, m) alone when the average
\* remaining share of the group is above 1%, and otherwise on (p, m') with
\* the same resetAt for every model m' of the group; everything else in the
\* registry stays as it was.  For gemini-2.5-pro and a group average of 0
\* all models of its group are on cooldown.
C14_GroupCooldown ==
  /\ \A projectId \in CooldownProjects, model \in GroupModels,
        resetTimestamp \in ResetTimestamps, quotas \in GroupReplies :
       (getModelGroup(model) # "" /\ resetTimestamp > now) =>
         LET call == [projectId |-> projectId, model |-> model,
                      resetTimestamp |-> resetTimestamp,
                      reason |-> "RESOURCE_EXHAUSTED"]
             s == PoolState(IdleReq)
             t == setCooldownAfterQuotas(s, call, FALSE, quotas)
             groupModels == getModelsInGroup(getModelGroup(model))
             group == {groupModels[i] : i \in DOMAIN groupModels}
         IN  IF AverageAbove(quotas, groupModels)
             THEN /\ Installed(t.cooldownMap, projectId, model, resetTimestamp)
                  /\ SameElsewhere(s.cooldownMap, t.cooldownMap,
                                   {<<projectId, model>>})
             ELSE /\ \A m \in group :
                       /\ Installed(t.cooldownMap, projectId, m, resetTimestamp)
                       /\ Cooling(t, projectId, m)
                  /\ SameElsewhere(s.cooldownMap, t.cooldownMap,
                                   {<<projectId, m>> : m \in group})
  /\ LET t == setCooldownAfterQuotas(PoolState(IdleReq),
                [projectId |-> "pA", model |-> "gemini-2.5-pro",
                 resetTimestamp |-> now + TickMs, reason |-> "RESOURCE_EXHAUSTED"],
                FALSE, <<[model |-> "gemini-2.5-pro", remaining |-> 0]>>)
     IN  \A m \in {"gemini-3-pro-high", "rev19-uic3-1p", "gemini-2.5-flash",
                    "gemini-3-pro-low", "gemini-2.5-flash-thinking",
                    "gemini-2.5-pro", "gemini-2.5-flash-lite"} :
           Cooling(t, "pA", m)

\* setCooldown for gemini-2.5-pro has put the seven models of its group on
\* cooldown with one reset time, and nothing else
C14_Witness ==
  /\ Len(cooldownMap) = 7
  /\ \A i \in DOMAIN cooldownMap :
       /\ getModelGroup(cooldownMap[i].model) = getModelGroup("gemini-2.5-pro")
       /\ cooldownMap[i].resetTimestamp = cooldownMap[1].resetTimestamp
       /\ cooldownMap[i].projectId = "pA"
  /\ cooldownsFile = cooldownMap
  /\ pendingCooldown = {}

\* C15: isOnCooldown(p, m) returns true iff the registry holds a record of
\* (p, m) whose reset time is later than now; a record whose reset time is
\* not later than now is removed by the call, and the call changes nothing
\* else of the registry.
C15_IsOnCooldown ==
  [][(Len(returned') = Len(returned) + 1
      /\ returned'[Len(returned')].op = "isOnCooldown") =>
       LET q == returned'[Len(returned')]
           held == HasKey(cooldownMap, q.projectId, q.model)
           ahead == held /\ MapGet(cooldownMap, q.projectId, q.model).resetTimestamp > now
       IN  /\ q.result <=> ahead
           /\ (held /\ ~ahead) => ~HasKey(cooldownMap', q.projectId, q.model)
           /\ ahead => cooldownMap' = cooldownMap
           /\ SameElsewhere(cooldownMap, cooldownMap', {<<q.projectId, q.model>>})]_vars

\* a query found a record at its reset time, before the timer fired, and
\* answered false; the record is gone
C15_Witness ==
  \E i \in DOMAIN returned :
    /\ returned[i].op = "isOnCooldown"
    /\ returned[i].held
    /\ ~returned[i].result
    /\ returned[i].at = now
    /\ ~HasKey(cooldownMap, returned[i].projectId, returned[i].model)

(***************************************************************************)
(* Schema cleaning                                                         *)
(***************************************************************************)
\* C16: schema cleaning is a fixed point.  Cleaning the cleaned schema
\* returns the cleaned schema, the cleaned schema is what cleanJsonSchema
\* makes of the schema that was given, and the second call leaves its
\* argument as it was.
C16_CleanFixedPoint ==
  recleaned # NoSchema =>
    /\ recleaned = cleaned
    /\ cleaned = cleanJsonSchema(input)

\* cleaned twice: a schema whose root description received the stripped
\* facets and whose required array lost a name
C16_Witness ==
  /\ recleaned # NoSchema
  /\ HasField(input, "description")
  /\ HasField(recleaned, "description")
  /\ Field(recleaned, "description") # Field(input, "description")
  /\ HasField(recleaned, "required")
  /\ Field(recleaned, "required") # Field(input, "required")

\* the facets cleanJsonSchema strips, anywhere in the schema
RECURSIVE HasFacets(_)
HasFacets(value) ==
  /\ value.t \in {"object", "array"}
  /\ \/ /\ value.t = "object"
        /\ \/ \E i \in DOMAIN validationFields : HasField(value, validationFields[i])
           \/ /\ HasField(value, "additionalProperties")
              /\ Field(value, "additionalProperties") = JBool("false")
     \/ \E i \in DOMAIN value.kids : HasFacets(value.kids[i].v)

ExampleSchema ==
  JObj(E("type", JStr("object"))
       \o E("properties", JObj(E("x", BoundedX)))
       \o E("required", JArr(<<JStr("x"), JStr("y")>>))
       \o E("additionalProperties", JBool("false"))
       \o E("$schema", JStr("http://json-schema.org/draft-07/schema#")))

\* C17: when cleanJsonSchema strips validation facets or
\* additionalProperties=false, the root of the cleaned schema has a
\* description that ends with the list of what was stripped, also when the
\* schema had no description; the example schema is cleaned to type,
\* properties {x: {type: string}}, required [x] and the description
\* "(minLength: minLength, no additional properties)".
C17_FacetsInDescription ==
  (cleaned # NoSchema /\ input.t = "object") =>
    /\ HasFacets(input) =>
         /\ HasField(cleaned, "description")
         /\ Field(cleaned, "description").t = "string"
         /\ LET d == Field(cleaned, "description").a
            IN  Len(d) > 0 /\ SubSeq(d, Len(d), Len(d)) = ")"
    /\ input = ExampleSchema =>
         /\ Keys(cleaned) = {"type", "properties", "required", "description"}
         /\ Field(cleaned, "type") = JStr("object")
         /\ Field(cleaned, "properties") = JObj(E("x", PlainX))
         /\ Field(cleaned, "required") = JArr(<<JStr("x")>>)
         /\ Field(cleaned, "description")
              = JStr("(minLength: minLength, no additional properties)")

(***************************************************************************)
(* Merging of consecutive messages                                         *)
(***************************************************************************)
\* the message list with the content blocks of consecutive messages of one
\* role put into one message, in order
RECURSIVE PreMerge(_, _)
PreMerge(merged, messages) ==
  IF messages = << >> THEN merged
  ELSE LET n == Len(merged)
           message == Head(messages)
       IN  IF n > 0 /\ merged[n].role = message.role
           THEN PreMerge([merged EXCEPT ![n].content = @ \o message.content],
                         Tail(messages))
           ELSE PreMerge(Append(merged, message), Tail(messages))

\* C18: role merge idempotence.  The request translated from a message list
\* has the contents of the request translated from the list in which
\* consecutive messages of one role are merged beforehand, and no two
\* adjacent entries of the contents have the same role.
C18_MergeIdempotent ==
  trDone =>
    /\ trOut.contents
         = convertClaudeToGeminiRequest(PreMerge(<< >>, trMessages), trModel).contents
    /\ \A i \in 1..(Len(trOut.contents) - 1) :
         trOut.contents[i].role # trOut.contents[i + 1].role

\* the same for message lists in which no thinking block carries a signature
C18_MergeUnsigned ==
  (trDone /\ \A i \in DOMAIN trMessages : ThinkingSignature(trMessages[i].content) = "") =>
    /\ trOut.contents
         = convertClaudeToGeminiRequest(PreMerge(<< >>, trMessages), trModel).contents
    /\ \A i \in 1..(Len(trOut.contents) - 1) :
         trOut.contents[i].role # trOut.contents[i + 1].role

Usable(token, modelName) ==
  /\ InSeq(token, tokens)
  /\ tok[token].enable
  /\ ~isExpired(tok[token])
  /\ tok[token].projectId # NoProject
  /\ getUsageCountSince(tok[token].projectId, now - HourMs) < hourlyLimit
  /\ ~InSeq(modelName, tok[token].disabledModels)

AtCap(token) ==
  getUsageCountSince(tok[token].projectId, now - HourMs) >= hourlyLimit

\* a getToken that waits for the reply to refreshToken, resumed with it
AfterReply(s, outcome) ==
  IF s.l.pc = "refreshToken" THEN getTokenAfterRefresh(s, outcome) ELSE s

\* C20: the hourly cap in the selection.  While the pool is [A, B], the
\* usage log has A at its hourly cap and B is usable, getToken returns B
\* (after the refresh of A, when A is due for one) and the getToken after
\* it returns B again; and no getToken returns a
\* credential that the usage log has at its hourly cap.
C20_CappedSkipped ==
  /\ [](\A modelName \in RequestModels :
          (tokens = <<"A", "B">> /\ AtCap("A") /\ Usable("B", modelName)) =>
            \A outcome \in {"ok", "403", "error"} :
              LET s == PoolState([IdleReq EXCEPT !.op = "getToken"])
                  first == AfterReply(getToken(s, modelName), outcome)
                  second == AfterReply(getToken([first EXCEPT !.l = s.l], modelName),
                                       outcome)
              IN  /\ first.l.pc = "returned" /\ first.l.result = "B"
                  /\ second.l.pc = "returned" /\ second.l.result = "B")
  /\ [][(Len(returned') = Len(returned) + 1
          /\ returned'[Len(returned')].op = "getToken"
          /\ returned'[Len(returned')].token # NoToken)
         => ~AtCap(returned'[Len(returned')].token)]_vars

\* two getToken calls, one after the other, have returned B while A was at
\* its cap; the index of the pool has moved from A to B and the use of B
\* is in the usage log
C20_Witness ==
  /\ tokens = <<"A", "B">>
  /\ AtCap("A")
  /\ Len(returned) = 2
  /\ returned[1].op = "getToken" /\ returned[1].token = "B"
  /\ returned[2].op = "getToken" /\ returned[2].token = "B"
  /\ currentIndex = 1
  /\ Len(ledger) > hourlyLimit

(***************************************************************************)
(* Credential pool: failures of the upstream calls                         *)
(***************************************************************************)
\* the state after the reply `outcome` to the upstream call getToken r waits for
AfterUpstream(r, outcome) ==
  IF req[r].pc = "refreshToken"
  THEN getTokenAfterRefresh(PoolState(req[r]), outcome)
  ELSE getTokenAfterFetch(PoolState(req[r]), outcome)

Persisted(file, token) ==
  file[MinOf({i \in DOMAIN file : file[i].refresh_token = token})]

\* C21: AuthDead handling.  When the refresh or the project discovery a
\* getToken call waits for fails with HTTP 400/403, or the discovery returns
\* no project, the credential is disabled: enable=false in the object and in
\* the accounts file, and the credential is not in the pool; after any other
\* failure the credential is enabled and in the pool as before.
C21_AuthDead ==
  \A r \in Reqs :
    (req[r].op = "getToken" /\ req[r].pc \in {"refreshToken", "fetchProjectId"}) =>
      LET token == req[r].token
          dead == AfterUpstream(r, "403")
          none == AfterUpstream(r, "undefined")
          transient == AfterUpstream(r, "error")
      IN  /\ /\ ~dead.tok[token].enable
             /\ ~InSeq(token, dead.tokens)
             /\ ~Persisted(dead.file, token).enable
          /\ req[r].pc = "fetchProjectId" =>
               /\ ~none.tok[token].enable
               /\ ~InSeq(token, none.tokens)
               /\ ~Persisted(none.file, token).enable
          /\ /\ transient.tok[token].enable = tok[token].enable
             /\ InSeq(token, transient.tokens) <=> InSeq(token, tokens)

\* the same without HTTP 400/403 from the project discovery
C21_AuthDeadRefresh ==
  \A r \in Reqs :
    (req[r].op = "getToken" /\ req[r].pc \in {"refreshToken", "fetchProjectId"}) =>
      LET token == req[r].token
          dead == AfterUpstream(r, "403")
          none == AfterUpstream(r, "undefined")
          transient == AfterUpstream(r, "error")
      IN  /\ req[r].pc = "refreshToken" =>
               /\ ~dead.tok[token].enable
               /\ ~InSeq(token, dead.tokens)
               /\ ~Persisted(dead.file, token).enable
          /\ req[r].pc = "fetchProjectId" =>
               /\ ~none.tok[token].enable
               /\ ~InSeq(token, none.tokens)
               /\ ~Persisted(none.file, token).enable
          /\ /\ transient.tok[token].enable = tok[token].enable
             /\ InSeq(token, transient.tokens) <=> InSeq(token, tokens)


\* C22: whatever TokenManager and the quota monitor have written to the
\* accounts file, no entry of the file has a sessionId, and every credential
\* of the pool has one in memory.
C22_SessionIdNotPersisted ==
  /\ \A i \in DOMAIN accountsFile : "sessionId" \notin DOMAIN accountsFile[i]
  /\ \A i \in DOMAIN tokens : "sessionId" \in DOMAIN tok[tokens[i]]

\* the file holds a refreshed credential and a list of disabled models that
\* the monitor has just written
C22_Witness ==
  /\ \E i \in DOMAIN accountsFile : accountsFile[i].access_token = "at1"
  /\ checked # NoCheck
  /\ FileEntry(checked.refresh_token).disabledModels # checked.before
  /\ tokens # << >>

\* the step is a write of the admin side
AdminStep == accountsFile' = Append(accountsFile, AdminEntry)

\* entry i of the file is rewritten by an operation of TokenManager: it is the
\* entry of a credential of the pool that the operation has updated
PoolWrite(i) ==
  LET rt == accountsFile[i].refresh_token
  IN  /\ InSeq(rt, tokens)
      /\ tok'[rt] # tok[rt]
      /\ accountsFile'[i] = StripSessionId(tok'[rt])

\* entry i of the file is rewritten by the monitor: it is the entry of the
\* account just checked, and only its disabledModels differ
MonitorWrite(i) ==
  /\ sweep' # sweep
  /\ checked'.refresh_token = accountsFile[i].refresh_token
  /\ accountsFile'[i] = [accountsFile[i] EXCEPT
                           !.disabledModels = accountsFile'[i].disabledModels]

C24_ThinkingEnablement ==
  (trDone /\ ~trOut.shouldDisableThinking) =>
    IF EnableThinkingForMessages(trModel)
    THEN trOut.includeThoughts /\ trOut.thinkingBudget = 1024
    ELSE ~trOut.includeThoughts /\ trOut.thinkingBudget = 0

\* the chunks sent: the texts of the content_block_delta events
IsDelta(e) == e.type = "content_block_delta"

SumOverDeltas(evs, f(_)) ==
  LET F[i \in 0..Len(evs)] ==
        IF i = 0 THEN 0
        ELSE F[i-1] + (IF IsDelta(evs[i]) THEN f(evs[i].text) ELSE 0)
  IN  F[Len(evs)]

\* max(1, ceil(length / 4))
CeilQuarter(text) == Max2(1, (Len(text) + 3) \div 4)

\* C25: the estimate of a text is max(1, ceil(length / 4)), the empty string
\* included, and totalOutputTokens is the sum of it over the text, thinking
\* and tool-argument chunks sent.
C25_TokenEstimate ==
  /\ \A i \in DOMAIN events :
       IsDelta(events[i]) => estimateTokensFromText(events[i].text) = CeilQuarter(events[i].text)
  /\ totalOutputTokens = SumOverDeltas(events, CeilQuarter)

\* totalOutputTokens is the sum of estimateTokensFromText over the chunks sent
C25_SumOfEstimates ==
  totalOutputTokens = SumOverDeltas(events, estimateTokensFromText)

\* the step completes a call, and Completed is its entry in the log
Completes == Len(returned') = Len(returned) + 1
Completed == returned'[Len(returned')]

\* C26: getToken(model) returns no credential that has the model in its
\* disabledModels when the call returns, also when the quota monitor has
\* updated disabledModels while the call was waiting for the credential's
\* refresh or project discovery.
C26_DisabledModelNotReturned ==
  [][(Completes /\ Completed.op = "getToken" /\ Completed.token # NoToken)
       => ~isModelDisabled([tok |-> tok'], Completed.token, Completed.model)]_vars

\* the credentials a call looked at, in order (an empty slot of this.tokens
\* is no credential)
Examined(entry) == SelectSeq(entry.examined, LAMBDA x : x # NoToken)

\* the call went once round the pool it started with
OneFullRound(entry) ==
  /\ \A i \in DOMAIN entry.pool : InSeq(entry.pool[i], entry.examined)
  /\ NoDuplicates(Examined(entry))

\* C27: a getToken call returns none only after one full round: it has
\* examined every credential that was in the pool when it started, each at
\* most once, also when getToken calls overlap and share currentIndex.
C27_OneFullRound ==
  [][(Completes /\ Completed.op = "getToken" /\ Completed.token = NoToken
        /\ Completed.pool # << >>)
       => OneFullRound(Completed)]_vars

\* every getToken call, under way or completed, has made at most as many
\* passes of its loop as the pool had credentials when it started
BoundedPasses ==
  /\ \A r \in Reqs : req[r].op = "getToken" => Len(req[r].examined) <= Len(req[r].pool)
  /\ \A i \in DOMAIN returned :
       returned[i].op = "getToken" => Len(returned[i].examined) <= Len(returned[i].pool)

\* C28: every getToken call ends after at most N passes of its loop, N the
\* size of the pool when it started, provided the refreshes and project
\* discoveries it waits for are answered, whatever this call or another one
\* disables meanwhile.
C28_Terminates ==
  /\ []BoundedPasses
  /\ \A r \in Reqs : Waiting(r) ~> ~Waiting(r)

\* a call has gone through the two passes its pool allows while a credential
\* was disabled and removed
C28_Witness ==
  \E i \in DOMAIN returned :
    /\ returned[i].op = "getToken"
    /\ Len(returned[i].pool) = 2
    /\ Len(returned[i].examined) = 2
    /\ Len(tokens) < 2

\* C29: a credential that has been disabled is returned by no getToken and
\* by no getTokenByProjectId that completes afterwards, a getToken that was
\* waiting for the credential's refresh or project discovery included.
C29_DisabledNotReturned ==
  [][(Completes /\ Completed.op \in {"getToken", "getTokenByProjectId"}
        /\ Completed.token # NoToken)
       => tok'[Completed.token].enable /\ InSeq(Completed.token, tokens')]_vars

\* the parts of the last assistant turn of the translated request
LastTurnParts ==
  IF LastModelIndex(trOut.contents) = 0 THEN << >>
  ELSE trOut.contents[LastModelIndex(trOut.contents)].parts

\* there is an assistant turn, and its last one has no thought part at all
LastTurnWithoutThought ==
  /\ LastModelIndex(trOut.contents) # 0
  /\ \A k \in DOMAIN LastTurnParts : ~LastTurnParts[k].thought

ForcedOff == HasUnsignedThinking(trMessages) \/ LastTurnWithoutThought

ThinkingOff == ~trOut.includeThoughts /\ trOut.thinkingBudget = 0
ThinkingOn == trOut.includeThoughts /\ trOut.thinkingBudget = 1024

\* C30: forced thinking disable.  For a thinking-capable model (a name that
\* ends in -thinking, is one of the listed reasoning models or contains
\* claude) thinking is off for the call when an assistant thinking block of
\* the history has no signature, or else when the last assistant turn has no
\* thought part at all; in every other case it stays on.
C30_ForcedThinkingDisable ==
  (trDone /\ EnableThinkingForMessages(trModel)) =>
    IF ForcedOff THEN ThinkingOff ELSE ThinkingOn

\* the same for the models generateGenerationConfig turns thinking on for
C30_ForcedDisableListed ==
  (trDone /\ GenerationEnableThinking(trModel, FALSE)) =>
    IF ForcedOff THEN ThinkingOff ELSE ThinkingOn

\* the parts of the last assistant turn as the loop over the messages built
\* them, before any reordering
LastTurnBuilt ==
  LET built == BuildContents(<< >>, trMessages)
  IN  IF LastModelIndex(built) = 0 THEN << >>
      ELSE built[LastModelIndex(built)].parts

Unsigned(parts) == [k \in DOMAIN parts |-> [parts[k] EXCEPT !.thoughtSignature = ""]]

\* no thought part comes after a part that is no thought
ThoughtsFirst(parts) ==
  \A i \in DOMAIN parts, j \in DOMAIN parts :
    (i < j /\ parts[j].thought) => parts[i].thought

\* C31: thoughts-first layout.  When the translation leaves thinking enabled
\* and the last assistant turn has parts, all its thought parts precede all
\* its other parts in the produced contents; within each group the order is
\* kept, and no part is added or lost.
C31_ThoughtsFirst ==
  (trDone /\ trOut.includeThoughts /\ LastTurnParts # << >>) =>
    /\ ThoughtsFirst(LastTurnParts)
    /\ SelectParts(Unsigned(LastTurnParts), IsThought)
         = SelectParts(Unsigned(LastTurnBuilt), IsThought)
    /\ SelectParts(Unsigned(LastTurnParts), IsNotThought)
         = SelectParts(Unsigned(LastTurnBuilt), IsNotThought)

\* the same for a turn whose first part is no thought; the parts are those
\* built, in the two groups
C31_ThoughtsFirstWhenNotLeading ==
  (trDone /\ trOut.includeThoughts /\ LastTurnParts # << >>) =>
    /\ ~LastTurnBuilt[1].thought => ThoughtsFirst(LastTurnParts)
    /\ SelectParts(Unsigned(LastTurnParts), IsThought)
         = SelectParts(Unsigned(LastTurnBuilt), IsThought)
    /\ SelectParts(Unsigned(LastTurnParts), IsNotThought)
         = SelectParts(Unsigned(LastTurnBuilt), IsNotThought)

\* C32: cooldown persistence.  After every completed mutation of the
\* registry (setCooldown for one model or for a group, removeCooldown, a
\* timer, a lazy eviction, clearAll) the persisted document lists exactly
\* the records of the in-memory registry, also after setCooldown for an
\* existing pair with a reset time that has passed.
C32_CooldownsPersisted == cooldownsFile = cooldownMap

\* the step is a setCooldown that found the reset time passed and dropped
\* the record of the pair
ExpiredSet ==
  /\ cooldownCalls' # cooldownCalls \/ pendingCooldown' # pendingCooldown
  /\ Len(cooldownMap') < Len(cooldownMap)

\* every other mutation of the registry is persisted, and every write of
\* the document writes the registry
C32_PersistedUnlessExpired ==
  [][/\ cooldownsFile' # cooldownsFile => cooldownsFile' = cooldownMap'
     /\ (cooldownMap' # cooldownMap /\ ~ExpiredSet) => cooldownsFile' = cooldownMap']_vars

\* the registry holds a record with this reset time
Held(resetTimestamp) ==
  \E i \in DOMAIN cooldownMap : cooldownMap[i].resetTimestamp = resetTimestamp

\* a timer takes away a record whose reset time is still ahead
EvictedEarly ==
  /\ cooldownCalls' = cooldownCalls /\ pendingCooldown' = pendingCooldown
  /\ returned' = returned
  /\ \E i \in DOMAIN cooldownMap :
       /\ cooldownMap[i].resetTimestamp > now
       /\ ~HasKey(cooldownMap', cooldownMap[i].projectId, cooldownMap[i].model)

\* every record of the registry has its timer, set to the reset time of the
\* record, and no timer is left of a record replaced or removed
OneTimerEach ==
  /\ \A i \in DOMAIN cooldownMap :
       \A t \in timerMap :
         (t.projectId = cooldownMap[i].projectId /\ t.model = cooldownMap[i].model)
           => t.fireAt = cooldownMap[i].resetTimestamp
  /\ \A i \in DOMAIN cooldownMap :
       \E t \in timerMap :
         t.projectId = cooldownMap[i].projectId /\ t.model = cooldownMap[i].model
  /\ \A t \in timerMap : HasKey(cooldownMap, t.projectId, t.model)

\* C33: every installed record leaves the registry once its reset time has
\* passed, by its timer and without a query, unless it is replaced or
\* removed before; a replaced record's timer is cancelled, so that no timer
\* takes a record away before the record's own reset time.
C33_TimersEvict ==
  /\ []OneTimerEach
  /\ [][~EvictedEarly]_vars
  /\ \A ts \in TimerStamps : Held(ts) ~> ~Held(ts)

\* the record of gemini-2.5-pro, installed with its group, was replaced in
\* place by one with a later reset time; the reset time of the replaced
\* record has come and the newer record is held
C33_Witness ==
  /\ Len(cooldownMap) = 7
  /\ cooldownMap[6].model = "gemini-2.5-pro"
  /\ cooldownMap[6].resetTimestamp = T0 + 2 * TickMs
  /\ cooldownMap[7].resetTimestamp = T0 + TickMs
  /\ now = T0 + TickMs
  /\ returned = << >>

\* the positions of the content_block_start events, and the number of them
\* among the first n events
StartPositions(evs) == {i \in DOMAIN evs : IsStart(evs[i])}
StartsBefore(evs, n) == Cardinality({i \in StartPositions(evs) : i < n})

\* the block of a tool call: its start, one input_json_delta and its stop,
\* one after the other, and no other event with its index
ToolBlockAt(evs, i) ==
  /\ i + 2 <= Len(evs)
  /\ IsDelta(evs[i + 1]) /\ evs[i + 1].kind = "input_json_delta"
  /\ evs[i + 1].index = evs[i].index
  /\ IsStop(evs[i + 2]) /\ evs[i + 2].index = evs[i].index
  /\ \A j \in DOMAIN evs :
       (evs[j].index = evs[i].index) => j \in {i, i + 1, i + 2}

\* C34: block indices are fresh and consecutive.  The content_block_start
\* events carry 0, 1, 2, ... in the order they are written; each tool call
\* has its own index with one start, one input_json_delta and one stop; and
\* every delta carries the index of a block that is open when it is written.
C34_FreshIndices ==
  /\ \A i \in StartPositions(events) : events[i].index = StartsBefore(events, i)
  /\ \A i \in StartPositions(events) :
       events[i].kind = "tool_use" => ToolBlockAt(events, i)
  /\ \A j \in DOMAIN events :
       IsDelta(events[j]) => events[j].index \in OpenAt(events, j - 1)
  /\ CountType(events, "content_block_start") = nextIndex

\* a text block, a thinking block and the blocks of two tool calls, each
\* with its own index
C34_Witness ==
  /\ nextIndex = 4
  /\ \E i \in StartPositions(events), j \in StartPositions(events) :
       /\ events[i].kind = "tool_use" /\ events[j].kind = "tool_use"
       /\ events[j].index = events[i].index + 1
  /\ \E i \in StartPositions(events) : events[i].kind = "text"
  /\ \E i \in StartPositions(events) : events[i].kind = "thinking"

\* ---- the isChecking flag of the quota monitor ------------------------------
\* a sweep is suspended in the await of getQuotas
SweepWaiting == \E k \in Sweeps : sweep[k].pc = "getQuotas"
SweepAnswered == \E k \in Sweeps : sweep[k].pc = "getQuotas" /\ sweep'[k] # sweep[k]

\* the monitor with an upstream that answers or fails every getQuotas call
\* (the call is an HTTP request bounded by a timeout)
SpecSweep ==
  /\ QuotaInit /\ [][QuotaNext]_vars
  /\ []<>(~SweepWaiting) \/ []<><<SweepAnswered>>_vars

\* C35: the isChecking flag is released after every sweep. The flag is set
\* exactly while a sweep waits for getQuotas, so a sweep that has ended
\* (completed, returned early on an empty list, or had its quota check fail)
\* never blocks a later tick, and a set flag is always cleared again.
C35_IsCheckingReleased ==
  /\ [](isChecking <=> SweepWaiting)
  /\ isChecking ~> ~isChecking

\* a sweep passed the guard, its quota check failed, and the flag is clear
C35_Witness ==
  /\ ~isChecking
  /\ \E rt \in DOMAIN attempted : attempted[rt] > 0
  /\ checked = NoCheck
  /\ now > T0


\* ---- updates of the quota cache --------------------------------------------
\* the entry of a key, or the entry markTokenUsed starts from
CacheEntry(cache, key) ==
  IF key \in DOMAIN cache THEN cache[key]
  ELSE [models |-> << >>, lastCheck |-> 0, lastUsed |-> 0]

\* a step of markTokenUsed: the cache changes and no sweep moves
MarkStep == quotaCache' # quotaCache /\ sweep' = sweep
\* a step in which checkQuotaForAccount writes the cache
CacheWriteStep == quotaCache' # quotaCache /\ sweep' # sweep

\* C36: quota-cache updates do not clobber each other. markTokenUsed leaves
\* models and lastCheck of every entry as they were, and the cache write of
\* checkQuotaForAccount keeps the lastUsed the entry has when the reply of
\* getQuotas arrives, which includes a markTokenUsed made while the request
\* was in flight.
C36_NoClobber ==
  [][/\ (MarkStep =>
           \A key \in DOMAIN quotaCache' :
             /\ quotaCache'[key].models = CacheEntry(quotaCache, key).models
             /\ quotaCache'[key].lastCheck = CacheEntry(quotaCache, key).lastCheck)
      /\ (CacheWriteStep =>
           \A credential \in DOMAIN quotaCache' :
             quotaCache'[credential].lastUsed
               = CacheEntry(quotaCache, credential).lastUsed)]_vars

\* the request began, markTokenUsed ran, and then the reply was written
C36_Witness ==
  /\ "pA" \in DOMAIN quotaCache
  /\ \E rt \in DOMAIN attempted :
       /\ 0 < attempted[rt]
       /\ attempted[rt] < quotaCache["pA"].lastUsed
  /\ \A rt \in DOMAIN attempted : attempted[rt] < quotaCache["pA"].lastUsed
  /\ quotaCache["pA"].lastUsed < quotaCache["pA"].lastCheck
  /\ quotaCache["pA"].models # << >>


\* ---- the names of tool results ----------------------------------------------
\* Total number of content blocks of a conversation with tools.
MaxToolBlocks == 4

\* a tool called twice under one id, with another name or with none
ToolBlocks == { TextBlock("hi"),
                ToolUseBlock("c1", "f"), ToolUseBlock("c1", "g"),
                ToolUseBlock("c1", ""), ToolResultBlock("c1", "ok") }

NamesAddMessage ==
  \E r \in Roles, b \in ToolBlocks :
    /\ ~trDone
    /\ TotalBlocks(trMessages) < MaxToolBlocks
    /\ trMessages' = Append(trMessages, [role |-> r, content |-> <<b>>])
    /\ UNCHANGED <<trModel, trParts, trOut, trDone, emVars, poolVars, quotaVars, schemaVars>>

NamesAddBlock ==
  \E b \in ToolBlocks :
    /\ ~trDone
    /\ trMessages # << >>
    /\ TotalBlocks(trMessages) < MaxToolBlocks
    /\ trMessages' = [trMessages EXCEPT ![Len(trMessages)].content = Append(@, b)]
    /\ UNCHANGED <<trModel, trParts, trOut, trDone, emVars, poolVars, quotaVars, schemaVars>>

NamesNext == NamesAddMessage \/ NamesAddBlock \/ TrTranslate

SpecNames == TrInit /\ [][NamesNext]_vars

\* the name of the first functionCall of a turn with this id
CallsOf(turn, id) ==
  {k \in DOMAIN turn.parts :
     turn.parts[k].kind = "functionCall" /\ turn.parts[k].id = id}
HasCall(turn, id) == turn.role = "model" /\ CallsOf(turn, id) # {}
FirstCallName(turn, id) == turn.parts[MinOf(CallsOf(turn, id))].name

\* the name the nearest of the given turns before turn k gives to id
NameFrom(contents, turns, id) ==
  IF turns = {} THEN ""
  ELSE FirstCallName(contents[MaxOf(turns)], id)

NearestCallName(contents, k, id) ==
  NameFrom(contents, {i \in 1..(k - 1) : HasCall(contents[i], id)}, id)

NearestNamedCallName(contents, k, id) ==
  NameFrom(contents,
           {i \in 1..(k - 1) : /\ HasCall(contents[i], id)
                               /\ FirstCallName(contents[i], id) # ""}, id)

\* every functionResponse of a user turn carries the name lookup(_, _, _) gives
ResponsesNamedBy(lookup(_, _, _)) ==
  trDone =>
    \A k \in DOMAIN trOut.contents :
      trOut.contents[k].role = "user" =>
        \A p \in DOMAIN trOut.contents[k].parts :
          trOut.contents[k].parts[p].kind = "functionResponse" =>
            trOut.contents[k].parts[p].name
              = lookup(trOut.contents, k, trOut.contents[k].parts[p].id)

\* C37: the name of every functionResponse made from a user tool_result is
\* the name of the functionCall with the same id in the nearest preceding
\* model turn that contains such a call, and "" when there is none.
C37_ToolResultNames == ResponsesNamedBy(NearestCallName)

\* C37 as the code has it: the nearest preceding model turn whose call with
\* that id has a non-empty name; "" when no turn has one.
C37_NamedToolResultNames == ResponsesNamedBy(NearestNamedCallName)

\* a tool result that is named by an earlier turn because the nearest call
\* with its id has no name
C37_Witness ==
  /\ trDone
  /\ \E k \in DOMAIN trOut.contents :
       /\ trOut.contents[k].role = "user"
       /\ \E p \in DOMAIN trOut.contents[k].parts :
            /\ trOut.contents[k].parts[p].kind = "functionResponse"
            /\ trOut.contents[k].parts[p].name = "f"
            /\ NearestCallName(trOut.contents, k, "c1") = ""
            /\ \E i \in 1..(k - 1) : HasCall(trOut.contents[i], "c1")


\* ---- the shape of a cleaned schema ------------------------------------------
\* required of an object is an array that is not empty and names only keys
\* of the object's properties
RequiredWithinProperties(obj) ==
  HasField(obj, "required") /\ Field(obj, "required").t = "array" =>
    /\ Field(obj, "required").kids # << >>
    /\ HasField(obj, "properties") /\ Field(obj, "properties").t = "object" =>
         \A i \in DOMAIN Field(obj, "required").kids :
           /\ Field(obj, "required").kids[i].v.t = "string"
           /\ Field(obj, "required").kids[i].v.a \in Keys(Field(obj, "properties"))

RECURSIVE WellCleaned(_)
WellCleaned(value) ==
  /\ value.t = "object" =>
       /\ \A key \in Keys(value) :
            ~InSeq(key, validationFields) /\ ~InSeq(key, fieldsToRemove)
       /\ RequiredWithinProperties(value)
  /\ \A i \in DOMAIN value.kids : WellCleaned(value.kids[i].v)

\* C38: in every schema cleanJsonSchema returns, at every depth, no object
\* has a removed key or a validation facet, required names only keys of
\* properties where an object has both, and no required array is empty.
C38_WellCleaned ==
  /\ cleaned # NoSchema /\ cleaned.t \in {"object", "array"} => WellCleaned(cleaned)
  /\ recleaned # NoSchema /\ recleaned.t \in {"object", "array"} => WellCleaned(recleaned)

\* a schema with facets at the root and two levels below, whose required
\* names no property at the root and a missing one in the nested object
C38_Witness ==
  /\ cleaned # NoSchema
  /\ HasField(input, "properties")
  /\ Field(input, "properties") = JObj(E("x", InnerObject))
  /\ HasField(input, "required")
  /\ Field(input, "required") = JArr(<<JStr("y")>>)
  /\ HasField(input, "additionalProperties")
  /\ ~HasField(cleaned, "required")
  /\ HasField(Field(Field(cleaned, "properties"), "x"), "required")


\* ---- the parameters of a tool ------------------------------------------------
\* a key cleanObject strips from a schema object
IsKeyword(key) == InSeq(key, validationFields) \/ InSeq(key, fieldsToRemove)

\* every entry of a properties map of the schema before (those named like a
\* keyword only when keywordsToo) is an entry of the same map of the schema
\* after, to every depth
RECURSIVE ParametersKept(_, _, _)
ParametersKept(before, after, keywordsToo) ==
  before.t = "object" /\ HasField(before, "properties")
    /\ Field(before, "properties").t = "object" =>
      /\ after.t = "object"
      /\ HasField(after, "properties")
      /\ \A key \in Keys(Field(before, "properties")) :
           keywordsToo \/ ~IsKeyword(key) =>
             /\ HasField(Field(after, "properties"), key)
             /\ ParametersKept(Field(Field(before, "properties"), key),
                               Field(Field(after, "properties"), key),
                               keywordsToo)

\* C40: cleanJsonSchema preserves tool parameters. Each entry of a
\* properties map of the input is an entry of the corresponding properties
\* map of the output, also when its name is that of a stripped keyword.
C40_ParametersKept ==
  cleaned # NoSchema => ParametersKept(input, cleaned, TRUE)

\* the parameters that are kept: those not named like a stripped keyword
C40_OtherParametersKept ==
  cleaned # NoSchema => ParametersKept(input, cleaned, FALSE)


\* ---- a client that goes away -------------------------------------------------
\* The client closes the connection. The emitter registers no listener on
\* the response and writeSSE ignores what res.write returns, so none of the
\* emitter's fields changes; the log of calls records when it happened, and
\* events holds from then on the writes made to the closed response.
ClientDisconnect ==
  /\ \A i \in DOMAIN calls : calls[i].op # "disconnect"
  /\ EmApply(EmState, Call("disconnect", "", << >>, NoUsage))

StreamNext == EmNext \/ ClientDisconnect

SpecStream == EmInit /\ [][StreamNext]_vars

Disconnected == \E i \in DOMAIN calls : calls[i].op = "disconnect"

EmitterCalled ==
  /\ Len(calls') = Len(calls) + 1
  /\ calls'[Len(calls')].op \in {"sendText", "sendThinking", "sendToolCalls", "finish"}

\* C39: once the client has disconnected, so that writes to the response
\* fail, no later sendText, sendThinking, sendToolCalls or finish call
\* writes an event.
C39_NoWriteAfterDisconnect ==
  [][Disconnected /\ EmitterCalled => events' = events]_vars

====
